---- MODULE Spec2Model ----
(***************************************************************************)
(* Synchronization and fusion core of sensorbox:                           *)
(*   sensorbox/sync/alignment.py     FrameBuffer, FrameAligner             *)
(*   sensorbox/sync/timestamp.py     TimestampManager                      *)
(*   sensorbox/sync/synced_fusion.py SyncedSensorFusion                    *)
(*   sensorbox/drivers/sensor_fusion.py SensorFusion                       *)
(* Timestamps are integers: one unit is one tick of the time base of the   *)
(* component under study (the code computes on floats; every value used    *)
(* here is a whole number of ticks).                                       *)
(***************************************************************************)
EXTENDS Integers, Sequences, FiniteSets, TLC

VARIABLES
    \* ---- FrameBuffer (alignment.py:53-120)
    fb_max_size,      \* self._max_size, also the deque's maxlen
    fb_max_age,       \* self._max_age
    fb_buffer,        \* self._buffer, oldest first
    fb_added,         \* every frame handed to add() since construction or clear()
    fb_ret,           \* the last call on the buffer and what it returned
    \* ---- FrameAligner (alignment.py:123-265)
    al_primary,       \* self._primary_sensor
    al_tolerance,     \* self._tolerance
    al_buffer_size,   \* self._buffer_size
    al_buffers,       \* self._buffers: sensor id -> that FrameBuffer's _buffer
    al_seq,           \* per sensor, the sequence number its driver gives the next frame
    al_total,         \* self._total_alignments
    al_successful,    \* self._successful_alignments
    al_lock,          \* self._lock is held (threading.Lock: not reentrant)
    al_pc,            \* where the thread inside align_to_primary stands
    al_target,        \* primary_frame.timestamp of the align_to_primary in progress
    al_ret,           \* the last call on the aligner that returned, and its result
    \* ---- TimestampManager (timestamp.py:21-109)
    tm_clock,         \* what time.monotonic() and datetime.now() read now
    tm_running,       \* self._running
    tm_start_mono,    \* self._start_time_mono
    tm_start_wall,    \* self._start_time_wall
    tm_stats,         \* self._sensor_stats: sensor type -> count, first_ts, last_ts
    tm_ret,           \* the last call on the manager and how it ended
    \* ---- the fusion driver the program built: a SyncedSensorFusion
    \* (synced_fusion.py:37-237) or a SensorFusion (sensor_fusion.py:37-271), which
    \* has the same fields except the OAK-D ones and _start_time
    fu_class,         \* the class of the driver
    sf_camera_ids,    \* self._camera_ids
    sf_enabled,       \* per async source: configured (self._lidar_port, self._oakd_enabled)
    sf_cameras,       \* keys of self._cameras (each maps to a connected CSICamera)
    sf_leaked,        \* connected camera drivers no longer referenced by self._cameras
    sf_driver,        \* self._lidar / self._oakd: "none", "created" or "connected"
    sf_queue,         \* self._lidar_queue / self._oakd_queue, oldest first
    sf_thread,        \* self._lidar_thread / self._oakd_thread: "none", "alive", "dead"
    sf_orphans,       \* per async source: live workers self._*_thread no longer names
    sf_stop_event,    \* self._stop_event.is_set()
    sf_connected,     \* self._connected
    sf_start_time,    \* self._start_time
    sf_clock,         \* what time.monotonic() reads now
    sf_epoch,         \* connect() calls that went past the already-connected test
    sf_produced,      \* per async source: frames its driver has produced
    sf_cam_seq,       \* per camera id: frames its driver has produced
    sf_ret,           \* the last call on the driver and how it ended
    \* ---- the program that uses the fusion driver: a with-block
    \* (synced_fusion.py:232-237) and the generator of stream() (202-230)
    wi_scope,         \* where the with-block stands
    st_pc,            \* where the generator of stream() stands
    st_duration,      \* stream(duration=...)
    st_max_frames,    \* stream(max_frames=...)
    st_start,         \* start
    st_count,         \* count
    st_last,          \* last: None for the initial 0.0, else the clock at the last yield
    st_boot,          \* what time.monotonic() read when the program started
    \* ---- CSICamera (csi_camera.py:37-311) and the generator of its stream()
    cc_auto_reconnect,            \* self._auto_reconnect
    cc_max_consecutive_failures,  \* self._max_consecutive_failures
    cc_connected,                 \* self._connected
    cc_sequence_number,           \* self._sequence_number
    cc_consecutive_failures,      \* self._consecutive_failures
    cc_ret,                       \* the last call on the camera and how it ended
    cs_pc,                        \* where the generator of stream() stands
    cs_max_frames,                \* stream(max_frames=...)
    cs_count,                     \* frame_count
    cs_yielded,                   \* sequence numbers of the frames the generator yielded
    \* ---- the threads of a SyncedSensorFusion, one statement at a time: a worker
    \* (synced_fusion.py:135-170), a thread inside disconnect() (113-133) and the
    \* caller's thread inside read() (184-200)
    wk_pc,            \* per async source: where its worker stands
    wk_frame,         \* per async source: the frame its worker holds
    wk_last,          \* per async source: how the worker's last turn of the loop ended
    dc_pc,            \* where the thread inside disconnect() stands
    dc_closed,        \* ids of the cameras whose driver disconnect() has disconnected
    rd_pc,            \* where the thread inside read() stands
    rd_left,          \* the camera ids the iteration over self._cameras has yet to give
    rd_size,          \* the size of self._cameras when the iteration began
    rd_got,           \* cameras: the ids read() has a frame of
    rd_ts             \* ts

fbVars == <<fb_max_size, fb_max_age, fb_buffer, fb_added, fb_ret>>

alVars == <<al_primary, al_tolerance, al_buffer_size, al_buffers, al_seq, al_total,
            al_successful, al_lock, al_pc, al_target, al_ret>>

tmVars == <<tm_clock, tm_running, tm_start_mono, tm_start_wall, tm_stats, tm_ret>>

sfVars == <<sf_camera_ids, sf_enabled, sf_cameras, sf_leaked, sf_driver, sf_queue,
            sf_thread, sf_orphans, sf_stop_event, sf_connected, sf_start_time, sf_clock,
            sf_epoch, sf_produced, sf_cam_seq, sf_ret>>

usVars == <<wi_scope, st_pc, st_duration, st_max_frames, st_start, st_count, st_last,
            st_boot>>

ccVars == <<cc_auto_reconnect, cc_max_consecutive_failures, cc_connected,
            cc_sequence_number, cc_consecutive_failures, cc_ret,
            cs_pc, cs_max_frames, cs_count, cs_yielded>>

thVars == <<wk_pc, wk_frame, wk_last, dc_pc, dc_closed, rd_pc, rd_left, rd_size, rd_got,
            rd_ts>>

vars == <<fbVars, alVars, tmVars, fu_class, sfVars, usVars, ccVars, thVars>>

----------------------------------------------------------------------------
\* Bounds of the FrameBuffer study
MaxTs == 4          \* frame timestamps and lookup targets range over 0..MaxTs
MaxAdds == 4        \* add() calls between two clear()s
MaxSize == 3        \* largest max_size a buffer is built with

Abs(x) == IF x < 0 THEN 0 - x ELSE x

\* Python's None as a call result / a found value
NoneRes == [found |-> FALSE]

Frame(sid, ts, seq) == [sensor_id |-> sid, timestamp |-> ts, sequence_number |-> seq]

Timestamps(buf) == [i \in 1..Len(buf) |-> buf[i].timestamp]

----------------------------------------------------------------------------
\* FrameBuffer

\* a buggy append: the deque is not bounded
DequeAppendUnbounded(buf, f, max_size) == Append(buf, f)

\* a buggy append: a full deque drops its newest entry instead of its oldest
DequeAppendDropNewest(buf, f, max_size) ==
    IF Len(buf) >= max_size /\ Len(buf) > 0
    THEN Append(SubSeq(buf, 1, Len(buf) - 1), f)
    ELSE Append(buf, f)

\* deque(maxlen=max_size).append(f): a full deque discards from its left end
DequeAppend(buf, f, max_size) ==
    LET b == Append(buf, f)
    IN  IF Len(b) > max_size THEN SubSeq(b, Len(b) - max_size + 1, Len(b)) ELSE b

RECURSIVE PopWhileOldInclusive(_, _)
\* a buggy loop: an entry exactly at the cutoff is dropped too
PopWhileOldInclusive(buf, cutoff) ==
    IF buf # <<>> /\ Head(buf).timestamp <= cutoff
    THEN PopWhileOldInclusive(Tail(buf), cutoff)
    ELSE buf

RECURSIVE PopWhileOld(_, _)
\* while self._buffer and self._buffer[0].timestamp < cutoff: popleft()
PopWhileOld(buf, cutoff) ==
    IF buf # <<>> /\ Head(buf).timestamp < cutoff
    THEN PopWhileOld(Tail(buf), cutoff)
    ELSE buf

\* FrameBuffer._cleanup_old_frames
CleanupOldFrames(buf, max_age) ==
    IF buf = <<>> THEN buf
    ELSE PopWhileOld(buf, buf[Len(buf)].timestamp - max_age)

\* FrameBuffer.add, on the buffer's contents
BufferAdd(buf, f, max_size, max_age) ==
    CleanupOldFrames(DequeAppend(buf, f, max_size), max_age)

RECURSIVE ScanNearestLastWins(_, _, _, _)
\* a buggy scan: a later frame at the same distance replaces the best one
ScanNearestLastWins(buf, i, t, best) ==
    IF i > Len(buf) THEN best
    ELSE IF best = 0 \/ Abs(buf[i].timestamp - t) <= Abs(buf[best].timestamp - t)
         THEN ScanNearestLastWins(buf, i + 1, t, i)
         ELSE ScanNearestLastWins(buf, i + 1, t, best)

RECURSIVE ScanNearest(_, _, _, _)
\* the loop of find_nearest from index i on; best is the index of best_frame,
\* 0 while best_frame is None and best_delta is float('inf')
ScanNearest(buf, i, t, best) ==
    IF i > Len(buf) THEN best
    ELSE IF best = 0 \/ Abs(buf[i].timestamp - t) < Abs(buf[best].timestamp - t)
         THEN ScanNearest(buf, i + 1, t, i)
         ELSE ScanNearest(buf, i + 1, t, best)

\* a buggy result: the delta is frame.timestamp - target_ts
FindNearestFlippedDelta(buf, t) ==
    IF buf = <<>> THEN NoneRes
    ELSE LET b == ScanNearest(buf, 1, t, 0)
         IN  IF b # 0
             THEN [found |-> TRUE, frame |-> buf[b], delta |-> buf[b].timestamp - t]
             ELSE NoneRes

\* FrameBuffer.find_nearest: (frame, target_ts - frame.timestamp) or None
FindNearest(buf, t) ==
    IF buf = <<>> THEN NoneRes
    ELSE LET b == ScanNearest(buf, 1, t, 0)
         IN  IF b # 0
             THEN [found |-> TRUE, frame |-> buf[b], delta |-> t - buf[b].timestamp]
             ELSE NoneRes

\* FrameBuffer.get_latest
GetLatest(buf) ==
    IF buf # <<>> THEN [found |-> TRUE, frame |-> buf[Len(buf)]] ELSE NoneRes

\* what a step of the FrameBuffer study leaves alone
fbOthers == <<alVars, tmVars, fu_class, sfVars, usVars, ccVars, thVars>>

\* FrameBuffer.__init__
FBInit ==
    /\ fb_max_size \in 1..MaxSize
    /\ fb_max_age \in {2, MaxTs + 1}
    /\ fb_buffer = <<>>
    /\ fb_added = <<>>
    /\ fb_ret = [op |-> "init", arg |-> 0, res |-> NoneRes]

\* buffer.add(frame); the frame's sequence number is the driver's counter
FBAdd(ts) ==
    /\ Len(fb_added) < MaxAdds
    /\ LET f == Frame("cam", ts, Len(fb_added))
       IN  /\ fb_buffer' = BufferAdd(fb_buffer, f, fb_max_size, fb_max_age)
           /\ fb_added' = Append(fb_added, f)
           /\ fb_ret' = [op |-> "add", arg |-> ts, res |-> NoneRes]
    /\ UNCHANGED <<fb_max_size, fb_max_age>>
    /\ UNCHANGED fbOthers

\* buffer.find_nearest(t)
FBFindNearest(t) ==
    /\ fb_ret' = [op |-> "find_nearest", arg |-> t, res |-> FindNearest(fb_buffer, t)]
    /\ UNCHANGED <<fb_max_size, fb_max_age, fb_buffer, fb_added>>
    /\ UNCHANGED fbOthers

\* buffer.get_latest()
FBGetLatest ==
    /\ fb_ret' = [op |-> "get_latest", arg |-> 0, res |-> GetLatest(fb_buffer)]
    /\ UNCHANGED <<fb_max_size, fb_max_age, fb_buffer, fb_added>>
    /\ UNCHANGED fbOthers

\* buffer.clear()
FBClear ==
    /\ fb_buffer' = <<>>
    /\ fb_added' = <<>>
    /\ fb_ret' = [op |-> "clear", arg |-> 0, res |-> NoneRes]
    /\ UNCHANGED <<fb_max_size, fb_max_age>>
    /\ UNCHANGED fbOthers

\* len(buffer)
FBLen ==
    /\ fb_ret' = [op |-> "len", arg |-> 0, res |-> [found |-> TRUE, len |-> Len(fb_buffer)]]
    /\ UNCHANGED <<fb_max_size, fb_max_age, fb_buffer, fb_added>>
    /\ UNCHANGED fbOthers

FBNext ==
    \/ \E ts \in 0..MaxTs : FBAdd(ts)
    \/ \E t \in 0..MaxTs : FBFindNearest(t)
    \/ FBGetLatest
    \/ FBClear
    \/ FBLen

\* FrameBuffer() with one fixed configuration, for the studies of the other classes
FBIdle ==
    /\ fb_max_size = 1
    /\ fb_max_age = 2
    /\ fb_buffer = <<>>
    /\ fb_added = <<>>
    /\ fb_ret = [op |-> "init", arg |-> 0, res |-> NoneRes]

----------------------------------------------------------------------------
\* FrameAligner.  One time unit is 10 ms: tolerance 0.050 s is 5, 10.00 s is 1000.

\* Bounds of the FrameAligner study
MaxFrameOff == 1       \* add_frame timestamps range over 1000..1000+MaxFrameOff
MaxBufferSize == 2     \* largest buffer_size an aligner is built with
MaxSeq == 2            \* add_frame calls, all sensors together
MaxAligns == 2         \* align_to_timestamp executions between two clear()s

\* FrameBuffer.__init__: max_age: float = 5.0
DefaultMaxAge == 500
\* FrameAligner.__init__: tolerance: float = 0.050
DefaultTolerance == 5

Sensors == {"cam", "lidar"}
AlFrameTs == 1000..(1000 + MaxFrameOff)
\* align_to_timestamp targets: on a frame, inside, at and beyond either tolerance
AlTargetTs == {1000, 1003, 1005, 1006, 1010}

\* sensor_ids=None, or a list of sensor ids (its order does not reach the result)
NoIds == [given |-> FALSE, ids |-> {}]
Ids(S) == [given |-> TRUE, ids |-> S]
AlSensorIds == {NoIds} \cup {Ids(S) : S \in SUBSET Sensors}

\* a buggy test: a frame exactly at the tolerance is not matched
WithinToleranceStrict(delta, tol) == Abs(delta) < tol

\* abs(delta) <= self._tolerance
WithinTolerance(delta, tol) == Abs(delta) <= tol

\* the body of align_to_timestamp: the AlignedFrame it builds
AlignedFrame(buffers, target, sids, tol) ==
    LET \* sensors = sensor_ids or list(self._buffers.keys())
        sensors == IF sids.given /\ sids.ids # {} THEN sids.ids ELSE DOMAIN buffers
        near(s) == FindNearest(buffers[s], target)
        hit == {s \in sensors \cap DOMAIN buffers :
                    near(s).found /\ WithinTolerance(near(s).delta, tol)}
    IN  [found |-> TRUE,
         timestamp |-> target,
         frames |-> [s \in hit |-> near(s).frame],
         alignment_errors |-> [s \in hit |-> near(s).delta]]

\* FrameAligner.__init__
ALInit ==
    /\ al_primary \in Sensors
    /\ al_tolerance \in {0, DefaultTolerance}
    /\ al_buffer_size \in 1..MaxBufferSize
    /\ al_buffers = <<>>
    /\ al_seq = [s \in Sensors |-> 0]
    /\ al_total = 0
    /\ al_successful = 0
    /\ al_lock = FALSE
    /\ al_pc = "idle"
    /\ al_target = 0
    /\ al_ret = [op |-> "init", target |-> 0, sensor_ids |-> NoIds, res |-> NoneRes]

\* FrameAligner() with one fixed configuration, for the studies of the other classes
ALIdle ==
    /\ al_primary = "cam"
    /\ al_tolerance = DefaultTolerance
    /\ al_buffer_size = 1
    /\ al_buffers = <<>>
    /\ al_seq = [s \in Sensors |-> 0]
    /\ al_total = 0
    /\ al_successful = 0
    /\ al_lock = FALSE
    /\ al_pc = "idle"
    /\ al_target = 0
    /\ al_ret = [op |-> "init", target |-> 0, sensor_ids |-> NoIds, res |-> NoneRes]

\* what a step of the FrameAligner study leaves alone
alOthers == <<fbVars, tmVars, fu_class, sfVars, usVars, ccVars, thVars>>

alConfig == <<al_primary, al_tolerance, al_buffer_size>>

\* _get_buffer: the sensor's buffer, created empty on first use
GetBuffer(buffers, s) == IF s \in DOMAIN buffers THEN buffers[s] ELSE <<>>

\* add_frame(frame), frame from sensor s with timestamp ts
ALAddFrame(s, ts) ==
    /\ ~al_lock                      \* with self._lock
    /\ al_seq["cam"] + al_seq["lidar"] < MaxSeq
    /\ al_buffers' = (s :> BufferAdd(GetBuffer(al_buffers, s), Frame(s, ts, al_seq[s]),
                                     al_buffer_size, DefaultMaxAge)) @@ al_buffers
    /\ al_seq' = [al_seq EXCEPT ![s] = @ + 1]
    /\ al_ret' = [op |-> "add_frame", target |-> ts, sensor_ids |-> NoIds, res |-> NoneRes]
    /\ UNCHANGED <<alConfig, al_total, al_successful, al_lock, al_pc, al_target>>
    /\ UNCHANGED alOthers

\* align_to_timestamp(target, sensor_ids), called by a client (al_pc = "idle") or
\* by align_to_primary at line 241 (al_pc = "align_to_primary", the lock still held
\* by the caller): either way it first takes self._lock
ALAlignToTimestamp(target, sids) ==
    /\ ~al_lock                      \* with self._lock
    /\ al_total < MaxAligns
    /\ al_pc = "align_to_primary" => (target = al_target /\ sids = NoIds)
    /\ LET res == AlignedFrame(al_buffers, target, sids, al_tolerance)
       IN  /\ al_total' = al_total + 1
           /\ al_successful' = IF DOMAIN res.frames # {} THEN al_successful + 1
                               ELSE al_successful
           /\ al_ret' = [op |-> IF al_pc = "idle" THEN "align_to_timestamp"
                                ELSE "align_to_primary",
                         target |-> target, sensor_ids |-> sids, res |-> res]
    /\ al_pc' = "idle"
    /\ al_target' = 0
    /\ UNCHANGED <<alConfig, al_buffers, al_seq, al_lock>>
    /\ UNCHANGED alOthers

\* align_to_primary(), up to its call of align_to_timestamp (lines 233-241)
ALAlignToPrimary ==
    /\ ~al_lock                      \* with self._lock
    /\ al_pc = "idle"
    /\ LET latest == IF al_primary \in DOMAIN al_buffers
                     THEN GetLatest(al_buffers[al_primary]) ELSE NoneRes
       IN  IF ~latest.found
           THEN /\ al_ret' = [op |-> "align_to_primary", target |-> 0,
                              sensor_ids |-> NoIds, res |-> NoneRes]
                /\ UNCHANGED <<al_lock, al_pc, al_target>>
           ELSE /\ al_lock' = TRUE   \* still inside the with block at line 241
                /\ al_pc' = "align_to_primary"
                /\ al_target' = latest.frame.timestamp
                /\ UNCHANGED al_ret
    /\ UNCHANGED <<alConfig, al_buffers, al_seq, al_total, al_successful>>
    /\ UNCHANGED alOthers

\* get_stats()
ALGetStats ==
    /\ ~al_lock                      \* with self._lock
    /\ al_ret' = [op |-> "get_stats", target |-> 0, sensor_ids |-> NoIds,
                  res |-> [found |-> TRUE,
                           total_alignments |-> al_total,
                           successful_alignments |-> al_successful,
                           \* successful / total as a fraction, 0.0 when total is 0
                           success_rate |-> IF al_total > 0 THEN <<al_successful, al_total>>
                                            ELSE <<0, 1>>,
                           buffer_sizes |-> [s \in DOMAIN al_buffers |-> Len(al_buffers[s])]]]
    /\ UNCHANGED <<alConfig, al_buffers, al_seq, al_total, al_successful, al_lock, al_pc,
                   al_target>>
    /\ UNCHANGED alOthers

\* clear()
ALClear ==
    /\ ~al_lock                      \* with self._lock
    /\ al_buffers' = [s \in DOMAIN al_buffers |-> <<>>]
    /\ al_total' = 0
    /\ al_successful' = 0
    /\ al_ret' = [op |-> "clear", target |-> 0, sensor_ids |-> NoIds, res |-> NoneRes]
    /\ UNCHANGED <<alConfig, al_seq, al_lock, al_pc, al_target>>
    /\ UNCHANGED alOthers

ALNext ==
    \/ \E s \in Sensors, ts \in AlFrameTs : ALAddFrame(s, ts)
    \/ \E target \in AlTargetTs, sids \in AlSensorIds : ALAlignToTimestamp(target, sids)
    \/ ALAlignToPrimary
    \/ ALGetStats
    \/ ALClear

----------------------------------------------------------------------------
\* TimestampManager.  One time unit is 5 ms.

\* Bounds of the TimestampManager study
MaxClock == 3          \* the clock reads 0..MaxClock
MaxStamps == 2         \* get_timestamp calls counted in the stats at one time

\* SyncConfig.latency_compensation: "camera": 0.010, "lidar": 0.005
LatencyCamera == 2
LatencyLidar == 1

SensorTypes == {"camera", "lidar", "default"}

Some(v) == [found |-> TRUE, value |-> v]

\* self._config.latency_compensation.get(sensor_type, 0.0)
Latency(sensor_type) ==
    CASE sensor_type = "camera" -> LatencyCamera
      [] sensor_type = "lidar" -> LatencyLidar
      [] OTHER -> 0

\* the elapsed_time property
ElapsedTime == IF ~tm_start_mono.found THEN 0 ELSE tm_clock - tm_start_mono.value

\* get_stats(): count, duration, avg_rate_hz (count / duration as a fraction)
Stats ==
    [st \in DOMAIN tm_stats |->
        LET duration == tm_stats[st].last_ts - tm_stats[st].first_ts
        IN  [count |-> tm_stats[st].count,
             duration |-> duration,
             avg_rate_hz |-> IF duration > 0 THEN <<tm_stats[st].count, duration>>
                             ELSE <<0, 1>>]]

TotalCount == LET c(st) == IF st \in DOMAIN tm_stats THEN tm_stats[st].count ELSE 0
              IN  c("camera") + c("lidar") + c("default")

TmRet(op, st, comp, raised, value) ==
    [op |-> op, at |-> tm_clock, sensor_type |-> st, compensate |-> comp,
     raised |-> raised, value |-> value]

\* TimestampManager.__init__
TMInit ==
    /\ tm_clock = 0
    /\ tm_running = FALSE
    /\ tm_start_mono = NoneRes
    /\ tm_start_wall = NoneRes
    /\ tm_stats = <<>>
    /\ tm_ret = [op |-> "init", at |-> 0, sensor_type |-> "default", compensate |-> FALSE,
                 raised |-> FALSE, value |-> <<>>]

\* what a step of the TimestampManager study leaves alone
tmOthers == <<fbVars, alVars, fu_class, sfVars, usVars, ccVars, thVars>>

\* time passes
TMTick ==
    /\ tm_clock < MaxClock
    /\ tm_clock' = tm_clock + 1
    /\ UNCHANGED <<tm_running, tm_start_mono, tm_start_wall, tm_stats, tm_ret>>
    /\ UNCHANGED tmOthers

\* a buggy start(): no early return while running
TMStartAlways ==
    /\ tm_start_mono' = Some(tm_clock)
    /\ tm_start_wall' = Some(tm_clock)
    /\ tm_running' = TRUE
    /\ tm_stats' = <<>>
    /\ tm_ret' = TmRet("start", "default", FALSE, FALSE, <<>>)
    /\ UNCHANGED tm_clock
    /\ UNCHANGED tmOthers

\* start()
TMStart ==
    /\ IF tm_running
       THEN UNCHANGED <<tm_start_mono, tm_start_wall, tm_running, tm_stats>>
       ELSE /\ tm_start_mono' = Some(tm_clock)
            /\ tm_start_wall' = Some(tm_clock)
            /\ tm_running' = TRUE
            /\ tm_stats' = <<>>
    /\ tm_ret' = TmRet("start", "default", FALSE, FALSE, <<>>)
    /\ UNCHANGED tm_clock
    /\ UNCHANGED tmOthers

\* a buggy stop(): it also forgets the anchors and the stats
TMStopForgets ==
    /\ tm_running' = FALSE
    /\ tm_start_mono' = NoneRes
    /\ tm_start_wall' = NoneRes
    /\ tm_stats' = <<>>
    /\ tm_ret' = TmRet("stop", "default", FALSE, FALSE, <<>>)
    /\ UNCHANGED tm_clock
    /\ UNCHANGED tmOthers

\* stop()
TMStop ==
    /\ tm_running' = FALSE
    /\ tm_ret' = TmRet("stop", "default", FALSE, FALSE, <<>>)
    /\ UNCHANGED <<tm_clock, tm_start_mono, tm_start_wall, tm_stats>>
    /\ UNCHANGED tmOthers

\* reset()
TMReset ==
    /\ tm_start_mono' = Some(tm_clock)
    /\ tm_start_wall' = Some(tm_clock)
    /\ tm_stats' = <<>>
    /\ tm_ret' = TmRet("reset", "default", FALSE, FALSE, <<>>)
    /\ UNCHANGED <<tm_clock, tm_running>>
    /\ UNCHANGED tmOthers

\* a get_timestamp() that does not test self._running: it fails only on the
\* missing anchor of a manager never started or reset
TMGetTimestampUnguarded(st, comp) ==
    /\ IF ~tm_start_mono.found
       THEN /\ tm_ret' = TmRet("get_timestamp", st, comp, TRUE, <<>>)
            /\ UNCHANGED tm_stats
       ELSE /\ TotalCount < MaxStamps
            /\ LET relative_ts == (tm_clock - tm_start_mono.value)
                                    - (IF comp THEN Latency(st) ELSE 0)
                   old == IF st \in DOMAIN tm_stats THEN tm_stats[st]
                          ELSE [count |-> 0, first_ts |-> relative_ts, last_ts |-> relative_ts]
               IN  /\ tm_stats' = (st :> [old EXCEPT !.count = @ + 1, !.last_ts = relative_ts])
                                    @@ tm_stats
                   /\ tm_ret' = TmRet("get_timestamp", st, comp, FALSE,
                                      <<relative_ts, tm_clock>>)
    /\ UNCHANGED <<tm_clock, tm_running, tm_start_mono, tm_start_wall>>
    /\ UNCHANGED tmOthers

\* get_timestamp(sensor_type, compensate_latency)
TMGetTimestamp(st, comp) ==
    /\ IF ~tm_running
       THEN /\ tm_ret' = TmRet("get_timestamp", st, comp, TRUE, <<>>)   \* RuntimeError
            /\ UNCHANGED tm_stats
       ELSE /\ TotalCount < MaxStamps
            /\ LET relative_ts == (tm_clock - tm_start_mono.value)
                                    - (IF comp THEN Latency(st) ELSE 0)
                   old == IF st \in DOMAIN tm_stats THEN tm_stats[st]
                          ELSE [count |-> 0, first_ts |-> relative_ts, last_ts |-> relative_ts]
               IN  /\ tm_stats' = (st :> [old EXCEPT !.count = @ + 1, !.last_ts = relative_ts])
                                    @@ tm_stats
                   /\ tm_ret' = TmRet("get_timestamp", st, comp, FALSE,
                                      <<relative_ts, tm_clock>>)
    /\ UNCHANGED <<tm_clock, tm_running, tm_start_mono, tm_start_wall>>
    /\ UNCHANGED tmOthers

\* get_stats()
TMGetStats ==
    /\ tm_ret' = TmRet("get_stats", "default", FALSE, FALSE, Stats)
    /\ UNCHANGED <<tm_clock, tm_running, tm_start_mono, tm_start_wall, tm_stats>>
    /\ UNCHANGED tmOthers

TMNext ==
    \/ TMTick
    \/ TMStart
    \/ TMStop
    \/ TMReset
    \/ \E st \in SensorTypes, comp \in BOOLEAN : TMGetTimestamp(st, comp)
    \/ TMGetStats

----------------------------------------------------------------------------
\* SyncedSensorFusion

\* Bounds of the fusion study
MaxConnects == 1       \* connect() calls that go past the already-connected test
MaxAsyncFrames == 2    \* frames the async drivers produce, all together
MaxCamFrames == 1      \* frames the camera drivers produce, all together
MaxFusionClock == 1    \* the clock reads 0..MaxFusionClock

\* queue.Queue(maxsize=5)
QueueMaxSize == 5

AsyncSources == {"lidar", "oakd"}
CameraIds == {0, 1}

\* a frame of a driver, produced during connection number epoch
AsyncFrame(x, epoch, n) == [sensor_id |-> x, epoch |-> epoch, sequence_number |-> n]

\* the configured cameras, in configured order, that are keys of self._cameras
CamerasInOrder(ids, cams) == SelectSeq(ids, LAMBDA c : c \in cams)

Range(seq) == {seq[i] : i \in 1..Len(seq)}

SfRet(op, raised, value) == [op |-> op, raised |-> raised, value |-> value]

\* SyncedSensorFusion.__init__
SFInit ==
    /\ sf_camera_ids \in {<<>>, <<0>>, <<0, 1>>}
    /\ sf_enabled \in [AsyncSources -> BOOLEAN]
    /\ sf_cameras = {}
    /\ sf_leaked = 0
    /\ sf_driver = [x \in AsyncSources |-> "none"]
    /\ sf_queue = [x \in AsyncSources |-> <<>>]
    /\ sf_thread = [x \in AsyncSources |-> "none"]
    /\ sf_orphans = [x \in AsyncSources |-> 0]
    /\ sf_stop_event = FALSE
    /\ sf_connected = FALSE
    /\ sf_start_time = NoneRes
    /\ sf_clock = 0
    /\ sf_epoch = 0
    /\ sf_produced = [x \in AsyncSources |-> 0]
    /\ sf_cam_seq = [c \in CameraIds |-> 0]
    /\ sf_ret = SfRet("init", "no", <<>>)

\* SyncedSensorFusion() with one fixed configuration, for the studies of the other classes
SFIdle ==
    /\ sf_camera_ids = <<>>
    /\ sf_enabled = [x \in AsyncSources |-> FALSE]
    /\ sf_cameras = {}
    /\ sf_leaked = 0
    /\ sf_driver = [x \in AsyncSources |-> "none"]
    /\ sf_queue = [x \in AsyncSources |-> <<>>]
    /\ sf_thread = [x \in AsyncSources |-> "none"]
    /\ sf_orphans = [x \in AsyncSources |-> 0]
    /\ sf_stop_event = FALSE
    /\ sf_connected = FALSE
    /\ sf_start_time = NoneRes
    /\ sf_clock = 0
    /\ sf_epoch = 0
    /\ sf_produced = [x \in AsyncSources |-> 0]
    /\ sf_cam_seq = [c \in CameraIds |-> 0]
    /\ sf_ret = SfRet("init", "no", <<>>)

\* what a method of a fusion driver leaves alone
sfOthers == <<fbVars, alVars, tmVars, fu_class, ccVars>>

sfConfig == <<sf_camera_ids, sf_enabled>>

\* time passes
SFTick ==
    /\ sf_clock < MaxFusionClock
    /\ sf_clock' = sf_clock + 1
    /\ UNCHANGED <<sfConfig, sf_cameras, sf_leaked, sf_driver, sf_queue, sf_thread,
                   sf_orphans, sf_stop_event, sf_connected, sf_start_time, sf_epoch,
                   sf_produced, sf_cam_seq, sf_ret>>
    /\ UNCHANGED sfOthers

\* connect().  The sensors connect in the order cameras, lidar, oakd; fail_at is
\* the position (1..Len(camera_ids) a camera, then "lidar", "oakd") of the sensor
\* whose connect() raises, 0 when none does.
SFConnectWithin(fail_at, limit) ==
    /\ fu_class = "SyncedSensorFusion"
    /\ IF sf_connected
       THEN /\ fail_at = 0
            /\ sf_ret' = SfRet("connect", "no", <<>>)
            /\ UNCHANGED <<sf_cameras, sf_leaked, sf_driver, sf_thread, sf_orphans,
                           sf_stop_event, sf_connected, sf_start_time, sf_epoch>>
       ELSE LET n == Len(sf_camera_ids)
                \* the cameras whose connect() returned
                done == {sf_camera_ids[i] : i \in 1..(IF fail_at \in 1..n THEN fail_at - 1 ELSE n)}
                cams_ok == fail_at \notin 1..n
                \* reached(x): the code gets to the block of async source x
                reached(x) == /\ cams_ok /\ sf_enabled[x]
                              /\ (x = "oakd" => fail_at # n + 1 \/ ~sf_enabled["lidar"])
                pos(x) == IF x = "lidar" THEN n + 1 ELSE n + 2
                fails(x) == reached(x) /\ fail_at = pos(x)
                failed == fail_at \in 1..n \/ \E x \in AsyncSources : fails(x)
            IN  /\ sf_epoch < limit
                /\ fail_at \in 0..(n + 2)
                /\ fail_at > n => sf_enabled[IF fail_at = n + 1 THEN "lidar" ELSE "oakd"]
                /\ sf_epoch' = sf_epoch + 1
                /\ sf_start_time' = Some(sf_clock)
                /\ sf_stop_event' = FALSE
                /\ sf_cameras' = sf_cameras \cup done
                /\ sf_leaked' = sf_leaked + Cardinality(sf_cameras \cap done)
                /\ sf_driver' = [x \in AsyncSources |->
                                    IF ~reached(x) THEN sf_driver[x]
                                    ELSE IF fails(x) THEN "created" ELSE "connected"]
                /\ sf_thread' = [x \in AsyncSources |->
                                    IF reached(x) /\ ~fails(x) THEN "alive" ELSE sf_thread[x]]
                /\ sf_orphans' = [x \in AsyncSources |->
                                    IF reached(x) /\ ~fails(x) /\ sf_thread[x] = "alive"
                                    THEN sf_orphans[x] + 1 ELSE sf_orphans[x]]
                /\ sf_connected' = ~failed
                /\ sf_ret' = SfRet("connect", IF failed THEN "ConnectionError" ELSE "no", <<>>)
    /\ UNCHANGED <<sfConfig, sf_queue, sf_clock, sf_produced, sf_cam_seq>>
    /\ UNCHANGED sfOthers

\* connect(), within the bound of the fusion study
SFConnect(fail_at) == SFConnectWithin(fail_at, MaxConnects)

\* disconnect(); joined[x]: the worker self._*_thread names ends within the 2 s
\* of join(timeout=2.0)
SFDisconnect(joined) ==
    /\ fu_class = "SyncedSensorFusion"
    /\ sf_stop_event' = TRUE
    /\ sf_thread' = [x \in AsyncSources |->
                        IF sf_thread[x] = "alive" /\ joined[x] THEN "dead" ELSE sf_thread[x]]
    /\ \A x \in AsyncSources : sf_thread[x] # "alive" => joined[x]
    /\ sf_cameras' = {}
    /\ sf_driver' = [x \in AsyncSources |-> "none"]
    /\ sf_connected' = FALSE
    /\ sf_ret' = SfRet("disconnect", "no", <<>>)
    /\ UNCHANGED <<sfConfig, sf_leaked, sf_queue, sf_orphans, sf_start_time, sf_clock,
                   sf_epoch, sf_produced, sf_cam_seq>>
    /\ UNCHANGED sfOthers

\* put_nowait(frame); on queue.Full get_nowait() then put_nowait(frame)
QueuePutLatest(q, f) ==
    IF Len(q) < QueueMaxSize THEN Append(q, f) ELSE Append(Tail(q), f)

\* a worker that an exception of the driver's read() ends
SFWorkerTurnDiesOnRaise(x, orphan, outcome) ==
    /\ fu_class = "SyncedSensorFusion"
    /\ IF orphan THEN sf_orphans[x] > 0 ELSE sf_thread[x] = "alive"
    /\ sf_stop_event => outcome = "none"
    /\ ~sf_stop_event /\ sf_driver[x] # "connected" => outcome = "raise"
    /\ IF sf_stop_event \/ outcome = "raise"
       THEN /\ sf_thread' = IF orphan THEN sf_thread ELSE [sf_thread EXCEPT ![x] = "dead"]
            /\ sf_orphans' = IF orphan THEN [sf_orphans EXCEPT ![x] = @ - 1] ELSE sf_orphans
            /\ UNCHANGED <<sf_queue, sf_produced>>
       ELSE /\ IF outcome = "frame"
               THEN /\ sf_produced["lidar"] + sf_produced["oakd"] < MaxAsyncFrames
                    /\ sf_queue' = [sf_queue EXCEPT ![x] =
                          QueuePutLatest(@, AsyncFrame(x, sf_epoch, sf_produced[x]))]
                    /\ sf_produced' = [sf_produced EXCEPT ![x] = @ + 1]
               ELSE UNCHANGED <<sf_queue, sf_produced>>
            /\ UNCHANGED <<sf_thread, sf_orphans>>
    /\ UNCHANGED <<sfConfig, sf_cameras, sf_leaked, sf_driver, sf_stop_event, sf_connected,
                   sf_start_time, sf_clock, sf_epoch, sf_cam_seq, sf_ret>>
    /\ UNCHANGED sfOthers

\* one turn of the loop of _lidar_worker / _oakd_worker, by the worker the thread
\* handle names (orphan = FALSE) or by one it no longer names; outcome is what the
\* driver's read() does: "frame", "none" (None, or an OAK-D frame without rgb) or
\* "raise"
SFWorkerTurn(x, orphan, outcome) ==
    /\ fu_class = "SyncedSensorFusion"
    /\ IF orphan THEN sf_orphans[x] > 0 ELSE sf_thread[x] = "alive"
    /\ IF sf_stop_event
       THEN \* while not self._stop_event.is_set(): the worker ends
            /\ outcome = "none"
            /\ sf_thread' = IF orphan THEN sf_thread ELSE [sf_thread EXCEPT ![x] = "dead"]
            /\ sf_orphans' = IF orphan THEN [sf_orphans EXCEPT ![x] = @ - 1] ELSE sf_orphans
            /\ UNCHANGED <<sf_queue, sf_produced>>
       ELSE /\ sf_driver[x] # "connected" => outcome = "raise"
            /\ IF outcome = "frame"
               THEN /\ sf_produced["lidar"] + sf_produced["oakd"] < MaxAsyncFrames
                    /\ sf_queue' = [sf_queue EXCEPT ![x] =
                          QueuePutLatest(@, AsyncFrame(x, sf_epoch, sf_produced[x]))]
                    /\ sf_produced' = [sf_produced EXCEPT ![x] = @ + 1]
               ELSE UNCHANGED <<sf_queue, sf_produced>>
            /\ UNCHANGED <<sf_thread, sf_orphans>>
    /\ UNCHANGED <<sfConfig, sf_cameras, sf_leaked, sf_driver, sf_stop_event, sf_connected,
                   sf_start_time, sf_clock, sf_epoch, sf_cam_seq, sf_ret>>
    /\ UNCHANGED sfOthers

\* a get that answers an empty queue with a placeholder frame instead of None
QueueGetPlaceholder(q) ==
    IF q = <<>> THEN Some(AsyncFrame("placeholder", 0, 0)) ELSE Some(Head(q))

\* _get_lidar / _get_oakd: get_nowait(), None on queue.Empty
QueueGet(q) == IF q = <<>> THEN NoneRes ELSE Some(Head(q))

\* a read() whose connection test never fires
NotConnectedNever(connected) == FALSE

\* the test that opens read() and stream() of both fusion drivers:
\* if not self._connected: raise RuntimeError(...)
NotConnected(connected) == ~connected

\* read(); cam[c] is what camera c's read() does: "frame", "none" or "raise"
SFRead(cam) ==
    /\ fu_class = "SyncedSensorFusion"
    /\ IF NotConnected(sf_connected)
       THEN /\ \A c \in CameraIds : cam[c] = "none"
            /\ sf_ret' = SfRet("read", "RuntimeError", <<>>)
            /\ UNCHANGED <<sf_queue, sf_cam_seq>>
       ELSE IF ~sf_start_time.found
       THEN \* time.monotonic() - self._start_time with _start_time None
            /\ \A c \in CameraIds : cam[c] = "none"
            /\ sf_ret' = SfRet("read", "TypeError", <<>>)
            /\ UNCHANGED <<sf_queue, sf_cam_seq>>
       ELSE LET order == CamerasInOrder(sf_camera_ids, sf_cameras)
                raising == {i \in 1..Len(order) : cam[order[i]] = "raise"}
                \* the cameras read before the first one that raises
                upto == IF raising = {} THEN Len(order)
                        ELSE (CHOOSE i \in raising : \A j \in raising : i <= j) - 1
                got == {order[i] : i \in {j \in 1..upto : cam[order[j]] = "frame"}}
            IN  /\ \A c \in CameraIds : c \notin Range(order) => cam[c] = "none"
                /\ sf_cam_seq[0] + sf_cam_seq[1] + Cardinality(got) <= MaxCamFrames
                /\ sf_cam_seq' = [c \in CameraIds |->
                                    IF c \in got THEN sf_cam_seq[c] + 1 ELSE sf_cam_seq[c]]
                /\ IF raising # {}
                   THEN /\ sf_ret' = SfRet("read", "CameraReadError", <<>>)
                        /\ UNCHANGED sf_queue
                   ELSE /\ sf_queue' = [x \in AsyncSources |->
                                          IF sf_queue[x] = <<>> THEN <<>> ELSE Tail(sf_queue[x])]
                        /\ sf_ret' = SfRet("read", "no",
                              [timestamp |-> sf_clock - sf_start_time.value,
                               cameras |-> [c \in got |-> AsyncFrame(c, sf_epoch, sf_cam_seq[c])],
                               lidar |-> QueueGet(sf_queue["lidar"]),
                               oakd |-> QueueGet(sf_queue["oakd"])])
    /\ UNCHANGED <<sfConfig, sf_cameras, sf_leaked, sf_driver, sf_thread, sf_orphans,
                   sf_stop_event, sf_connected, sf_start_time, sf_clock, sf_epoch,
                   sf_produced>>
    /\ UNCHANGED sfOthers

\* the workers' turns, and the methods called one at a time from outside a
\* with-block and outside stream()
SFNext ==
    \/ \E fail_at \in 0..4 : SFConnect(fail_at) /\ UNCHANGED <<usVars, thVars>>
    \/ \E joined \in [AsyncSources -> BOOLEAN] : SFDisconnect(joined) /\ UNCHANGED <<usVars, thVars>>
    \/ \E x \in AsyncSources, orphan \in BOOLEAN, outcome \in {"frame", "none", "raise"} :
          SFWorkerTurn(x, orphan, outcome) /\ UNCHANGED <<usVars, thVars>>
    \/ \E cam \in [CameraIds -> {"frame", "none", "raise"}] : SFRead(cam) /\ UNCHANGED <<usVars, thVars>>

----------------------------------------------------------------------------
\* The program that uses a SyncedSensorFusion: `with fusion:` and fusion.stream()

\* Bound of the stream study
MaxStreamCount == 2    \* read() calls one generator of stream() makes

\* interval: the clock ticks once per interval (1.0 / target_fps, or 0.033)
StreamInterval == 1

\* duration=None, 0 or one interval; max_frames=None, 0 or 1
StreamDurations == {NoneRes, Some(0), Some(StreamInterval)}
StreamMaxFrames == {NoneRes, Some(0), Some(1)}

\* `if duration and ...`, `if max_frames and ...`: None and 0 are both false
Truthy(opt) == opt.found /\ opt.value # 0

\* time.monotonic(): its origin is not the program's start (on Linux the time
\* since boot); boot is what it read when the program started
Monotonic(boot, clock) == boot + clock

stConfig == <<st_duration, st_max_frames>>
stLocals == <<st_start, st_count, st_last>>

\* __enter__: connect(), then the body is entered; when connect() raises the
\* with statement is left without __exit__ being called
SFEnter(fail_at) ==
    /\ wi_scope = "none"
    /\ SFConnect(fail_at)
    /\ wi_scope' = IF sf_ret'.raised = "no" THEN "body" ELSE "entry_failed"
    /\ UNCHANGED <<st_pc, stConfig, stLocals, st_boot>>
    /\ UNCHANGED thVars

\* __exit__: disconnect(), whether the body ended normally or by an exception
\* (here: the last call in the body raised), which then goes on to the caller
SFExit(joined) ==
    /\ wi_scope = "body"
    /\ SFDisconnect(joined)
    /\ wi_scope' = IF sf_ret.raised = "no" THEN "exited" ELSE "unwound"
    /\ UNCHANGED <<st_pc, stConfig, stLocals, st_boot>>
    /\ UNCHANGED thVars

\* stream(duration, max_frames, target_fps): the call builds the generator and
\* runs none of its body
SFStream(duration, max_frames) ==
    /\ fu_class = "SyncedSensorFusion"
    /\ st_pc = "none"
    /\ st_pc' = "created"
    /\ st_duration' = duration
    /\ st_max_frames' = max_frames
    /\ UNCHANGED <<wi_scope, stLocals, st_boot>>
    /\ UNCHANGED thVars
    /\ UNCHANGED sfVars
    /\ UNCHANGED sfOthers

\* the generator runs: on its first run the connection test and the locals, then
\* one turn of `while True`; cam[c] is what camera c's read() does if the turn
\* gets to self.read().  time.monotonic() reads st_boot + sf_clock; last is 0.0
\* until the first frame.
SFStreamIter(cam) ==
    /\ fu_class = "SyncedSensorFusion"
    /\ st_pc \in {"created", "running"}
    /\ LET fresh == st_pc = "created"
           start == IF fresh THEN sf_clock ELSE st_start
           count == IF fresh THEN 0 ELSE st_count
           last  == IF fresh THEN NoneRes ELSE st_last
           quiet == \A c \in CameraIds : cam[c] = "none"
       IN  IF fresh /\ NotConnected(sf_connected)
           THEN /\ quiet
                /\ st_pc' = "raised"
                /\ sf_ret' = SfRet("stream", "RuntimeError", <<>>)
                /\ UNCHANGED <<stLocals, sf_queue, sf_cam_seq>>
                /\ UNCHANGED <<sfConfig, sf_cameras, sf_leaked, sf_driver, sf_thread,
                               sf_orphans, sf_stop_event, sf_connected, sf_start_time,
                               sf_clock, sf_epoch, sf_produced>>
                /\ UNCHANGED sfOthers
           ELSE IF \/ Truthy(st_duration) /\ sf_clock - start >= st_duration.value
                   \/ Truthy(st_max_frames) /\ count >= st_max_frames.value
           THEN \* break
                /\ quiet
                /\ st_pc' = "done"
                /\ st_start' = start /\ st_count' = count /\ st_last' = last
                /\ UNCHANGED sfVars
                /\ UNCHANGED sfOthers
           ELSE IF Monotonic(st_boot, sf_clock)
                      - (IF last.found THEN Monotonic(st_boot, last.value) ELSE 0)
                        < StreamInterval
           THEN \* time.sleep(0.005); continue
                /\ quiet
                /\ st_pc' = "running"
                /\ st_start' = start /\ st_count' = count /\ st_last' = last
                /\ UNCHANGED sfVars
                /\ UNCHANGED sfOthers
           ELSE \* frame = self.read(); count += 1; last = now; yield frame
                /\ count < MaxStreamCount
                /\ SFRead(cam)
                /\ st_start' = start
                /\ IF sf_ret'.raised = "no"
                   THEN st_pc' = "running" /\ st_count' = count + 1
                        /\ st_last' = Some(sf_clock)
                   ELSE st_pc' = "raised" /\ st_count' = count /\ st_last' = last
    /\ UNCHANGED <<wi_scope, stConfig, st_boot>>
    /\ UNCHANGED thVars

\* the program: a with-block around reads and one stream, the workers running
CallerNext ==
    \/ SFTick /\ UNCHANGED <<usVars, thVars>>
    \/ \E fail_at \in 0..4 : SFEnter(fail_at)
    \/ \E joined \in [AsyncSources -> BOOLEAN] : SFExit(joined)
    \/ \E x \in AsyncSources, orphan \in BOOLEAN, outcome \in {"frame", "none", "raise"} :
          SFWorkerTurn(x, orphan, outcome) /\ UNCHANGED <<usVars, thVars>>
    \/ \E cam \in [CameraIds -> {"frame", "none", "raise"}] : SFRead(cam) /\ UNCHANGED <<usVars, thVars>>
    \/ \E duration \in StreamDurations, max_frames \in StreamMaxFrames :
          SFStream(duration, max_frames)
    \/ \E cam \in [CameraIds -> {"frame", "none", "raise"}] : SFStreamIter(cam)

\* the same program with async drivers whose read() raises on every call and
\* cameras whose read() never raises
FaultyAsyncNext ==
    \/ SFTick /\ UNCHANGED <<usVars, thVars>>
    \/ \E fail_at \in 0..4 : SFEnter(fail_at)
    \/ \E joined \in [AsyncSources -> BOOLEAN] : SFExit(joined)
    \/ \E x \in AsyncSources, orphan \in BOOLEAN :
          SFWorkerTurn(x, orphan, IF sf_stop_event THEN "none" ELSE "raise")
             /\ UNCHANGED <<usVars, thVars>>
    \/ \E cam \in [CameraIds -> {"frame", "none"}] : SFRead(cam) /\ UNCHANGED <<usVars, thVars>>
    \/ \E duration \in StreamDurations, max_frames \in StreamMaxFrames :
          SFStream(duration, max_frames)
    \/ \E cam \in [CameraIds -> {"frame", "none"}] : SFStreamIter(cam)

----------------------------------------------------------------------------
\* SensorFusion (drivers/sensor_fusion.py): cameras and one lidar worker

\* queue.Queue(maxsize=10)
BasicQueueMaxSize == 10

\* SensorFusion.__init__
BFInit ==
    /\ sf_camera_ids \in {<<>>, <<0>>, <<0, 1>>}
    /\ sf_enabled \in {e \in [AsyncSources -> BOOLEAN] : ~e["oakd"]}
    /\ sf_cameras = {}
    /\ sf_leaked = 0
    /\ sf_driver = [x \in AsyncSources |-> "none"]
    /\ sf_queue = [x \in AsyncSources |-> <<>>]
    /\ sf_thread = [x \in AsyncSources |-> "none"]
    /\ sf_orphans = [x \in AsyncSources |-> 0]
    /\ sf_stop_event = FALSE
    /\ sf_connected = FALSE
    /\ sf_start_time = NoneRes
    /\ sf_clock = 0
    /\ sf_epoch = 0
    /\ sf_produced = [x \in AsyncSources |-> 0]
    /\ sf_cam_seq = [c \in CameraIds |-> 0]
    /\ sf_ret = SfRet("init", "no", <<>>)

\* connect().  fail_at: the position (1..Len(camera_ids) a camera, then the lidar)
\* of the sensor whose connect() raises, 0 when none does.
BFConnect(fail_at) ==
    /\ fu_class = "SensorFusion"
    /\ IF sf_connected
       THEN /\ fail_at = 0
            /\ sf_ret' = SfRet("connect", "no", <<>>)
            /\ UNCHANGED <<sf_cameras, sf_leaked, sf_driver, sf_thread, sf_stop_event,
                           sf_connected, sf_epoch>>
       ELSE LET n == Len(sf_camera_ids)
                done == {sf_camera_ids[i] : i \in 1..(IF fail_at \in 1..n THEN fail_at - 1 ELSE n)}
                lidar_reached == fail_at \notin 1..n /\ sf_enabled["lidar"]
                lidar_ok == lidar_reached /\ fail_at # n + 1
            IN  /\ sf_epoch < MaxConnects
                /\ fail_at \in 0..(n + 1)
                /\ fail_at = n + 1 => sf_enabled["lidar"]
                /\ sf_epoch' = sf_epoch + 1
                /\ sf_cameras' = sf_cameras \cup done
                /\ sf_leaked' = sf_leaked + Cardinality(sf_cameras \cap done)
                /\ sf_driver' = [sf_driver EXCEPT !["lidar"] =
                                    IF ~lidar_reached THEN @
                                    ELSE IF lidar_ok THEN "connected" ELSE "created"]
                /\ sf_stop_event' = IF lidar_ok THEN FALSE ELSE sf_stop_event
                /\ sf_thread' = [sf_thread EXCEPT !["lidar"] = IF lidar_ok THEN "alive" ELSE @]
                /\ sf_connected' = (fail_at = 0)
                /\ sf_ret' = SfRet("connect", IF fail_at = 0 THEN "no" ELSE "ConnectionError",
                                   <<>>)
    /\ UNCHANGED <<sfConfig, sf_queue, sf_orphans, sf_start_time, sf_clock, sf_produced,
                   sf_cam_seq>>
    /\ UNCHANGED sfOthers

\* disconnect(); joined: the worker ends within the 2 s of join(timeout=2.0).  The
\* thread handle is dropped either way; a worker that did not end lives on with
\* the lidar driver it started with, which disconnect() has disconnected.
BFDisconnect(joined) ==
    /\ fu_class = "SensorFusion"
    /\ sf_thread["lidar"] # "alive" => joined
    /\ sf_stop_event' = TRUE
    /\ sf_orphans' = [sf_orphans EXCEPT !["lidar"] =
                         IF sf_thread["lidar"] = "alive" /\ ~joined THEN @ + 1 ELSE @]
    /\ sf_thread' = [sf_thread EXCEPT !["lidar"] = "none"]
    /\ sf_cameras' = {}
    /\ sf_driver' = [sf_driver EXCEPT !["lidar"] = "none"]
    /\ sf_queue' = [sf_queue EXCEPT !["lidar"] = <<>>]
    /\ sf_connected' = FALSE
    /\ sf_ret' = SfRet("disconnect", "no", <<>>)
    /\ UNCHANGED <<sfConfig, sf_leaked, sf_start_time, sf_clock, sf_epoch, sf_produced,
                   sf_cam_seq>>
    /\ UNCHANGED sfOthers

\* put_nowait(frame); on queue.Full get_nowait() then put_nowait(frame)
BasicQueuePutLatest(q, f) ==
    IF Len(q) < BasicQueueMaxSize THEN Append(q, f) ELSE Append(Tail(q), f)

\* _lidar_worker: one step of `for frame in self._lidar.stream()`; outcome is what
\* the driver's read() inside stream() does: "frame", "none" (stream() reads
\* again without yielding) or "raise" (the worker prints the error and ends).
\* A worker the handle no longer names (orphan) is finishing the read that was
\* in flight when disconnect() gave up joining; its next read raises, so the
\* step is its last.
BFWorkerTurn(orphan, outcome) ==
    /\ fu_class = "SensorFusion"
    /\ IF orphan THEN sf_orphans["lidar"] > 0 ELSE sf_thread["lidar"] = "alive"
    /\ IF outcome = "frame" /\ ~sf_stop_event
       THEN /\ sf_produced["lidar"] + sf_produced["oakd"] < MaxAsyncFrames
            /\ sf_queue' = [sf_queue EXCEPT !["lidar"] =
                  BasicQueuePutLatest(@, AsyncFrame("lidar", sf_epoch, sf_produced["lidar"]))]
            /\ sf_produced' = [sf_produced EXCEPT !["lidar"] = @ + 1]
       ELSE UNCHANGED <<sf_queue, sf_produced>>
    /\ IF orphan
       THEN /\ sf_orphans' = [sf_orphans EXCEPT !["lidar"] = @ - 1]
            /\ UNCHANGED sf_thread
       ELSE /\ sf_thread' = [sf_thread EXCEPT !["lidar"] =
                                IF outcome = "raise" \/ (outcome = "frame" /\ sf_stop_event)
                                THEN "dead" ELSE @]
            /\ UNCHANGED sf_orphans
    /\ UNCHANGED <<sfConfig, sf_cameras, sf_leaked, sf_driver, sf_stop_event, sf_connected,
                   sf_start_time, sf_clock, sf_epoch, sf_cam_seq, sf_ret>>
    /\ UNCHANGED sfOthers

\* _get_latest_lidar: get_nowait() until queue.Empty, the last frame got or None
GetLatestLidar(q) == IF q = <<>> THEN NoneRes ELSE Some(q[Len(q)])

\* read(); cam[c] is what camera c's read() does: "frame", "none" or "raise"
BFRead(cam) ==
    /\ fu_class = "SensorFusion"
    /\ IF NotConnected(sf_connected)
       THEN /\ \A c \in CameraIds : cam[c] = "none"
            /\ sf_ret' = SfRet("read", "RuntimeError", <<>>)
            /\ UNCHANGED <<sf_queue, sf_cam_seq>>
       ELSE LET order == CamerasInOrder(sf_camera_ids, sf_cameras)
                raising == {i \in 1..Len(order) : cam[order[i]] = "raise"}
                upto == IF raising = {} THEN Len(order)
                        ELSE (CHOOSE i \in raising : \A j \in raising : i <= j) - 1
                got == {order[i] : i \in {j \in 1..upto : cam[order[j]] = "frame"}}
            IN  /\ \A c \in CameraIds : c \notin Range(order) => cam[c] = "none"
                /\ sf_cam_seq[0] + sf_cam_seq[1] + Cardinality(got) <= MaxCamFrames
                /\ sf_cam_seq' = [c \in CameraIds |->
                                    IF c \in got THEN sf_cam_seq[c] + 1 ELSE sf_cam_seq[c]]
                /\ IF raising # {}
                   THEN /\ sf_ret' = SfRet("read", "CameraReadError", <<>>)
                        /\ UNCHANGED sf_queue
                   ELSE /\ sf_queue' = [sf_queue EXCEPT !["lidar"] = <<>>]
                        /\ sf_ret' = SfRet("read", "no",
                              [timestamp |-> sf_clock,
                               cameras |-> [c \in got |-> AsyncFrame(c, sf_epoch, sf_cam_seq[c])],
                               lidar |-> GetLatestLidar(sf_queue["lidar"])])
    /\ UNCHANGED <<sfConfig, sf_cameras, sf_leaked, sf_driver, sf_thread, sf_orphans,
                   sf_stop_event, sf_connected, sf_start_time, sf_clock, sf_epoch,
                   sf_produced>>
    /\ UNCHANGED sfOthers

BFNext ==
    \/ \E fail_at \in 0..3 : BFConnect(fail_at) /\ UNCHANGED <<usVars, thVars>>
    \/ \E joined \in BOOLEAN : BFDisconnect(joined) /\ UNCHANGED <<usVars, thVars>>
    \/ \E orphan \in BOOLEAN, outcome \in {"frame", "none", "raise"} :
          BFWorkerTurn(orphan, outcome) /\ UNCHANGED <<usVars, thVars>>
    \/ \E cam \in [CameraIds -> {"frame", "none", "raise"}] : BFRead(cam) /\ UNCHANGED <<usVars, thVars>>

----------------------------------------------------------------------------
\* CSICamera (drivers/csi_camera.py) on the Sensor base class (core/sensor.py)

CcRet(op, raised, value) == [op |-> op, raised |-> raised, value |-> value]

\* CSICamera() with the error handling left at one fixed setting, for the studies
\* of the other classes
CCIdle ==
    /\ cc_auto_reconnect = TRUE
    /\ cc_max_consecutive_failures = 1
    /\ cc_connected = FALSE
    /\ cc_sequence_number = 0
    /\ cc_consecutive_failures = 0
    /\ cc_ret = CcRet("init", "no", <<>>)
    /\ cs_pc = "none"
    /\ cs_max_frames = NoneRes
    /\ cs_count = 0
    /\ cs_yielded = <<>>

ccOthers == <<fbVars, alVars, tmVars, fu_class, sfVars, usVars, thVars>>

\* Bounds of the CSICamera study
MaxCamFailures == 2    \* max_consecutive_failures ranges over 1..MaxCamFailures
MaxCamScript == 3      \* what the hardware does during one read(): at most this many events
MaxCamYield == 2       \* frames one generator of stream() yields

\* what the hardware does during one read(), in order: "ok" / "fail" for a
\* self._capture.read() that gives a frame / none, "up" / "down" for a connect()
\* inside reconnect() that succeeds within its attempts / fails in all of them
CamEvents == {"ok", "fail", "up", "down"}
CamScripts == UNION {[1..n -> CamEvents] : n \in 0..MaxCamScript}

ccConfig == <<cc_auto_reconnect, cc_max_consecutive_failures>>
ccFields == <<cc_connected, cc_sequence_number, cc_consecutive_failures>>
csVars == <<cs_pc, cs_max_frames, cs_count, cs_yielded>>

\* CSICamera.__init__ (Sensor.__init__: _connected False, _sequence_number 0)
CCInit ==
    /\ cc_auto_reconnect \in BOOLEAN
    /\ cc_max_consecutive_failures \in 1..MaxCamFailures
    /\ cc_connected = FALSE
    /\ cc_sequence_number = 0
    /\ cc_consecutive_failures = 0
    /\ cc_ret = CcRet("init", "no", <<>>)
    /\ cs_pc = "none"
    /\ cs_max_frames = NoneRes
    /\ cs_count = 0
    /\ cs_yielded = <<>>

\* the fields read() works on
CamState(connected, seq, failures) ==
    [connected |-> connected, sequence_number |-> seq, consecutive_failures |-> failures]

CamResult(c, raised, value, rest, valid) ==
    [c |-> c, raised |-> raised, value |-> value, rest |-> rest, valid |-> valid]

\* read() run on the fields c against the hardware events of script: the fields
\* after, the exception raised or "no", the sequence number of the frame
\* returned or None, the events left over, and whether the events fitted.
\* _do_connect (inside reconnect) sets _sequence_number = 0 and
\* _consecutive_failures = 0; after it read() calls itself.
RECURSIVE CameraRead(_, _, _, _)
CameraRead(c, script, auto, maxf) ==
    IF ~c.connected
    THEN CamResult(c, "RuntimeError", NoneRes, script, TRUE)
    ELSE IF script = <<>>
    THEN CamResult(c, "no", NoneRes, script, FALSE)
    ELSE IF Head(script) = "ok"
    THEN CamResult([c EXCEPT !.consecutive_failures = 0, !.sequence_number = @ + 1],
                   "no", Some(c.sequence_number), Tail(script), TRUE)
    ELSE IF Head(script) = "fail"
    THEN LET failed == [c EXCEPT !.consecutive_failures = @ + 1]
             rest == Tail(script)
         IN  IF failed.consecutive_failures < maxf
             THEN CamResult(failed, "no", NoneRes, rest, TRUE)
             ELSE IF ~auto
             THEN CamResult(failed, "CameraReadError", NoneRes, rest, TRUE)
             ELSE IF rest # <<>> /\ Head(rest) = "up"
             THEN CameraRead(CamState(TRUE, 0, 0), Tail(rest), auto, maxf)
             ELSE IF rest # <<>> /\ Head(rest) = "down"
             THEN CamResult([failed EXCEPT !.connected = FALSE], "CameraReadError",
                            NoneRes, Tail(rest), TRUE)
             ELSE CamResult(c, "no", NoneRes, rest, FALSE)
    ELSE CamResult(c, "no", NoneRes, script, FALSE)

\* connect(); up: one of the max_reconnect_attempts _do_connect() calls succeeds
CCConnect(up) ==
    /\ IF cc_connected
       THEN /\ up
            /\ cc_ret' = CcRet("connect", "no", <<>>)
            /\ UNCHANGED ccFields
       ELSE IF up
       THEN /\ cc_connected' = TRUE
            /\ cc_sequence_number' = 0
            /\ cc_consecutive_failures' = 0
            /\ cc_ret' = CcRet("connect", "no", <<>>)
       ELSE /\ cc_ret' = CcRet("connect", "CameraConnectionError", <<>>)
            /\ UNCHANGED ccFields
    /\ UNCHANGED <<ccConfig, csVars>>
    /\ UNCHANGED ccOthers

\* disconnect()
CCDisconnect ==
    /\ cc_connected' = FALSE
    /\ cc_ret' = CcRet("disconnect", "no", <<>>)
    /\ UNCHANGED <<cc_sequence_number, cc_consecutive_failures, ccConfig, csVars>>
    /\ UNCHANGED ccOthers

\* read(), called by the program itself
CCRead(script) ==
    /\ LET r == CameraRead(CamState(cc_connected, cc_sequence_number,
                                     cc_consecutive_failures),
                           script, cc_auto_reconnect, cc_max_consecutive_failures)
       IN  /\ r.valid /\ r.rest = <<>>
           /\ r.c.sequence_number <= MaxCamYield
           /\ r.c.consecutive_failures <= MaxCamFailures
           /\ cc_connected' = r.c.connected
           /\ cc_sequence_number' = r.c.sequence_number
           /\ cc_consecutive_failures' = r.c.consecutive_failures
           /\ cc_ret' = CcRet("read", r.raised, r.value)
    /\ UNCHANGED <<ccConfig, csVars>>
    /\ UNCHANGED ccOthers

\* stream(max_frames=...): the call builds the generator and runs none of its
\* body (duration and target_fps left at None)
CCStream(max_frames) ==
    /\ cs_pc = "none"
    /\ cs_pc' = "created"
    /\ cs_max_frames' = max_frames
    /\ cs_count' = 0
    /\ cs_yielded' = <<>>
    /\ UNCHANGED <<ccConfig, ccFields, cc_ret>>
    /\ UNCHANGED ccOthers

\* the generator runs: on its first run the connection test, then one turn of
\* `while True`, with one read() against the hardware events of script
CCStreamIter(script) ==
    /\ cs_pc \in {"created", "running"}
    /\ IF cs_pc = "created" /\ ~cc_connected
       THEN /\ script = <<>>
            /\ cs_pc' = "raised"
            /\ cc_ret' = CcRet("stream", "RuntimeError", <<>>)
            /\ UNCHANGED <<ccFields, cs_count, cs_yielded>>
       ELSE IF cs_max_frames.found /\ cs_count >= cs_max_frames.value
       THEN /\ script = <<>>
            /\ cs_pc' = "done"
            /\ UNCHANGED <<ccFields, cc_ret, cs_count, cs_yielded>>
       ELSE LET r == CameraRead(CamState(cc_connected, cc_sequence_number,
                                          cc_consecutive_failures),
                                script, cc_auto_reconnect, cc_max_consecutive_failures)
            IN  /\ r.valid /\ r.rest = <<>>
                /\ cs_count < MaxCamYield
                /\ r.c.consecutive_failures <= MaxCamFailures
                /\ cc_connected' = r.c.connected
                /\ cc_sequence_number' = r.c.sequence_number
                /\ cc_consecutive_failures' = r.c.consecutive_failures
                /\ cc_ret' = CcRet("read", r.raised, r.value)
                /\ IF r.raised = "CameraReadError"
                   THEN \* except CameraReadError: break
                        cs_pc' = "done" /\ UNCHANGED <<cs_count, cs_yielded>>
                   ELSE IF r.raised # "no"
                   THEN cs_pc' = "raised" /\ UNCHANGED <<cs_count, cs_yielded>>
                   ELSE IF r.value.found
                   THEN /\ cs_pc' = "running"
                        /\ cs_count' = cs_count + 1
                        /\ cs_yielded' = Append(cs_yielded, r.value.value)
                   ELSE cs_pc' = "running" /\ UNCHANGED <<cs_count, cs_yielded>>
    /\ UNCHANGED <<ccConfig, cs_max_frames>>
    /\ UNCHANGED ccOthers

\* the program of the camera study: connect(), one stream() run to its end, then
\* reads and disconnect()
CCNext ==
    \/ \E up \in BOOLEAN : cs_pc = "none" /\ CCConnect(up)
    \/ \E max_frames \in {NoneRes} \cup {Some(n) : n \in 0..MaxCamYield} :
          cc_connected /\ CCStream(max_frames)
    \/ \E script \in CamScripts : CCStreamIter(script)
    \/ \E script \in CamScripts : cs_pc \in {"done", "raised"} /\ CCRead(script)
    \/ cs_pc \in {"done", "raised"} /\ CCDisconnect

----------------------------------------------------------------------------
\* The threads of a SyncedSensorFusion, one statement at a time

\* Bound of the queue study
MaxQueueFrames == 6    \* frames one async driver produces

\* what a step of a worker or of the thread inside disconnect() leaves alone
thOthers == <<fbVars, alVars, tmVars, fu_class, ccVars, usVars>>

wkLocals == <<wk_pc, wk_frame, wk_last>>
dcLocals == <<dc_pc, dc_closed>>
rdLocals == <<rd_pc, rd_left, rd_size, rd_got, rd_ts>>

\* a worker that a failed push ends
WorkerAfterExceptDies(what) == IF what = "push_failed" THEN "done" ELSE "test"

\* where a worker goes on after `except Exception: time.sleep(...); continue`
\* (the driver's read() raised) and after `except: pass` (the second push
\* failed): back to the test of the stop flag
WorkerAfterExcept(what) == "test"

\* the worker of source x moves to pc; a worker that left its loop is a dead thread
WkGoto(x, pc) ==
    /\ wk_pc' = [wk_pc EXCEPT ![x] = pc]
    /\ sf_thread' = IF pc = "done" THEN [sf_thread EXCEPT ![x] = "dead"] ELSE sf_thread

\* while not self._stop_event.is_set()
WkTest(x) ==
    /\ fu_class = "SyncedSensorFusion"
    /\ wk_pc[x] = "test"
    /\ WkGoto(x, IF sf_stop_event THEN "done" ELSE "read")
    /\ UNCHANGED <<wk_frame, wk_last, dcLocals, rdLocals>>
    /\ UNCHANGED <<sfConfig, sf_cameras, sf_leaked, sf_driver, sf_queue, sf_orphans,
                   sf_stop_event, sf_connected, sf_start_time, sf_clock, sf_epoch,
                   sf_produced, sf_cam_seq, sf_ret>>
    /\ UNCHANGED thOthers

\* frame = self._lidar.read() / self._oakd.read(); outcome is what the call does:
\* "frame", "none" (None, or an OAK-D frame without rgb) or "raise" (also the
\* AttributeError on a driver that disconnect() has set to None)
WkRead(x, outcome) ==
    /\ fu_class = "SyncedSensorFusion"
    /\ wk_pc[x] = "read"
    /\ sf_driver[x] # "connected" => outcome = "raise"
    /\ IF outcome = "frame"
       THEN /\ sf_produced[x] < MaxQueueFrames
            /\ wk_frame' = [wk_frame EXCEPT ![x] = Some(AsyncFrame(x, sf_epoch, sf_produced[x]))]
            /\ sf_produced' = [sf_produced EXCEPT ![x] = @ + 1]
            /\ WkGoto(x, "put")
            /\ UNCHANGED wk_last
       ELSE /\ wk_last' = [wk_last EXCEPT ![x] = IF outcome = "raise" THEN "raised" ELSE "none"]
            /\ WkGoto(x, IF outcome = "raise" THEN WorkerAfterExcept("read_raised") ELSE "test")
            /\ UNCHANGED <<wk_frame, sf_produced>>
    /\ UNCHANGED <<dcLocals, rdLocals>>
    /\ UNCHANGED <<sfConfig, sf_cameras, sf_leaked, sf_driver, sf_queue, sf_orphans,
                   sf_stop_event, sf_connected, sf_start_time, sf_clock, sf_epoch,
                   sf_cam_seq, sf_ret>>
    /\ UNCHANGED thOthers

\* self._*_queue.put_nowait(frame): queue.Full on a full queue
WkPut(x) ==
    /\ fu_class = "SyncedSensorFusion"
    /\ wk_pc[x] = "put"
    /\ IF Len(sf_queue[x]) < QueueMaxSize
       THEN /\ sf_queue' = [sf_queue EXCEPT ![x] = Append(@, wk_frame[x].value)]
            /\ wk_frame' = [wk_frame EXCEPT ![x] = NoneRes]
            /\ wk_last' = [wk_last EXCEPT ![x] = "put"]
            /\ WkGoto(x, "test")
       ELSE /\ WkGoto(x, "evict")
            /\ UNCHANGED <<sf_queue, wk_frame, wk_last>>
    /\ UNCHANGED <<dcLocals, rdLocals>>
    /\ UNCHANGED <<sfConfig, sf_cameras, sf_leaked, sf_driver, sf_orphans, sf_stop_event,
                   sf_connected, sf_start_time, sf_clock, sf_epoch, sf_produced,
                   sf_cam_seq, sf_ret>>
    /\ UNCHANGED thOthers

\* except queue.Full: self._*_queue.get_nowait(); queue.Empty on a queue the
\* caller has emptied meanwhile, which `except: pass` swallows with the frame
WkEvict(x) ==
    /\ fu_class = "SyncedSensorFusion"
    /\ wk_pc[x] = "evict"
    /\ IF sf_queue[x] = <<>>
       THEN /\ wk_frame' = [wk_frame EXCEPT ![x] = NoneRes]
            /\ wk_last' = [wk_last EXCEPT ![x] = "dropped"]
            /\ WkGoto(x, WorkerAfterExcept("push_failed"))
            /\ UNCHANGED sf_queue
       ELSE /\ sf_queue' = [sf_queue EXCEPT ![x] = Tail(@)]
            /\ WkGoto(x, "reput")
            /\ UNCHANGED <<wk_frame, wk_last>>
    /\ UNCHANGED <<dcLocals, rdLocals>>
    /\ UNCHANGED <<sfConfig, sf_cameras, sf_leaked, sf_driver, sf_orphans, sf_stop_event,
                   sf_connected, sf_start_time, sf_clock, sf_epoch, sf_produced,
                   sf_cam_seq, sf_ret>>
    /\ UNCHANGED thOthers

\* the second self._*_queue.put_nowait(frame), inside the same try
WkReput(x) ==
    /\ fu_class = "SyncedSensorFusion"
    /\ wk_pc[x] = "reput"
    /\ IF Len(sf_queue[x]) < QueueMaxSize
       THEN /\ sf_queue' = [sf_queue EXCEPT ![x] = Append(@, wk_frame[x].value)]
            /\ wk_last' = [wk_last EXCEPT ![x] = "replaced"]
            /\ WkGoto(x, "test")
       ELSE /\ wk_last' = [wk_last EXCEPT ![x] = "dropped"]
            /\ WkGoto(x, WorkerAfterExcept("push_failed"))
            /\ UNCHANGED sf_queue
    /\ wk_frame' = [wk_frame EXCEPT ![x] = NoneRes]
    /\ UNCHANGED <<dcLocals, rdLocals>>
    /\ UNCHANGED <<sfConfig, sf_cameras, sf_leaked, sf_driver, sf_orphans, sf_stop_event,
                   sf_connected, sf_start_time, sf_clock, sf_epoch, sf_produced,
                   sf_cam_seq, sf_ret>>
    /\ UNCHANGED thOthers

\* disconnect(), line 114: self._stop_event.set()
DcSet ==
    /\ fu_class = "SyncedSensorFusion"
    /\ dc_pc = "idle"
    /\ sf_stop_event' = TRUE
    /\ dc_pc' = "join"
    /\ UNCHANGED <<dc_closed, wkLocals, rdLocals>>
    /\ UNCHANGED <<sfConfig, sf_cameras, sf_leaked, sf_driver, sf_queue, sf_thread,
                   sf_orphans, sf_connected, sf_start_time, sf_clock, sf_epoch,
                   sf_produced, sf_cam_seq, sf_ret>>
    /\ UNCHANGED thOthers

\* lines 116-119: each join(timeout=2.0) returns, the worker ended or not
DcJoins ==
    /\ fu_class = "SyncedSensorFusion"
    /\ dc_pc = "join"
    /\ dc_pc' = "cams"
    /\ UNCHANGED <<dc_closed, wkLocals, rdLocals>>
    /\ UNCHANGED sfVars
    /\ UNCHANGED thOthers

\* lines 121-122: cam.disconnect() for the next camera of self._cameras
DcCam(c) ==
    /\ fu_class = "SyncedSensorFusion"
    /\ dc_pc = "cams"
    /\ LET open == SelectSeq(CamerasInOrder(sf_camera_ids, sf_cameras),
                             LAMBDA k : k \notin dc_closed)
       IN  open # <<>> /\ c = Head(open)
    /\ dc_closed' = dc_closed \cup {c}
    /\ UNCHANGED <<dc_pc, wkLocals, rdLocals>>
    /\ UNCHANGED sfVars
    /\ UNCHANGED thOthers

\* line 123: self._cameras.clear(), after the loop over its values
DcClear ==
    /\ fu_class = "SyncedSensorFusion"
    /\ dc_pc = "cams"
    /\ sf_cameras \subseteq dc_closed
    /\ sf_cameras' = {}
    /\ dc_pc' = "drivers"
    /\ UNCHANGED <<dc_closed, wkLocals, rdLocals>>
    /\ UNCHANGED <<sfConfig, sf_leaked, sf_driver, sf_queue, sf_thread, sf_orphans,
                   sf_stop_event, sf_connected, sf_start_time, sf_clock, sf_epoch,
                   sf_produced, sf_cam_seq, sf_ret>>
    /\ UNCHANGED thOthers

\* lines 125-131: the lidar and the OAK-D driver are disconnected and set to None
DcDrivers ==
    /\ fu_class = "SyncedSensorFusion"
    /\ dc_pc = "drivers"
    /\ sf_driver' = [x \in AsyncSources |-> "none"]
    /\ dc_pc' = "end"
    /\ UNCHANGED <<dc_closed, wkLocals, rdLocals>>
    /\ UNCHANGED <<sfConfig, sf_cameras, sf_leaked, sf_queue, sf_thread, sf_orphans,
                   sf_stop_event, sf_connected, sf_start_time, sf_clock, sf_epoch,
                   sf_produced, sf_cam_seq, sf_ret>>
    /\ UNCHANGED thOthers

\* line 133: self._connected = False, and disconnect() returns
DcEnd ==
    /\ fu_class = "SyncedSensorFusion"
    /\ dc_pc = "end"
    /\ sf_connected' = FALSE
    /\ sf_ret' = SfRet("disconnect", "no", <<>>)
    /\ dc_pc' = "idle"
    /\ UNCHANGED <<dc_closed, wkLocals, rdLocals>>
    /\ UNCHANGED <<sfConfig, sf_cameras, sf_leaked, sf_driver, sf_queue, sf_thread,
                   sf_orphans, sf_stop_event, sf_start_time, sf_clock, sf_epoch,
                   sf_produced, sf_cam_seq>>
    /\ UNCHANGED thOthers

\* connect(), with the workers it starts standing at the top of their loop
THConnect(fail_at) ==
    /\ SFConnect(fail_at)
    /\ wk_pc' = [x \in AsyncSources |->
                    IF sf_thread'[x] = "alive" /\ sf_thread[x] # "alive" THEN "test"
                    ELSE wk_pc[x]]
    /\ UNCHANGED <<wk_frame, wk_last, dcLocals, rdLocals>>
    /\ UNCHANGED usVars

\* the queue study: one async source, its worker, a caller that connects and
\* reads, and a thread that calls disconnect()
QueueNext ==
    \/ \E fail_at \in 0..4 : THConnect(fail_at)
    \/ \E cam \in [CameraIds -> {"none"}] : SFRead(cam) /\ UNCHANGED <<usVars, thVars>>
    \/ \E x \in AsyncSources : WkTest(x)
    \/ \E x \in AsyncSources, outcome \in {"frame", "none", "raise"} : WkRead(x, outcome)
    \/ \E x \in AsyncSources : WkPut(x)
    \/ \E x \in AsyncSources : WkEvict(x)
    \/ \E x \in AsyncSources : WkReput(x)
    \/ DcSet
    \/ DcJoins
    \/ DcClear
    \/ DcDrivers
    \/ DcEnd

\* one turn of the loop of stream() up to the start of its self.read(): on the
\* first run the connection test and the locals, then the limits and the pacing,
\* then lines 185-191 of read().  `now` is kept in st_last from here on (line
\* 229, last = now, follows a read() that returned; after one that raised the
\* generator is finished).
HsTurn ==
    /\ fu_class = "SyncedSensorFusion"
    /\ st_pc \in {"created", "running"}
    /\ rd_pc = "idle"
    /\ LET fresh == st_pc = "created"
           start == IF fresh THEN sf_clock ELSE st_start
           count == IF fresh THEN 0 ELSE st_count
           last  == IF fresh THEN NoneRes ELSE st_last
       IN  IF fresh /\ NotConnected(sf_connected)
           THEN /\ st_pc' = "raised"
                /\ sf_ret' = SfRet("stream", "RuntimeError", <<>>)
                /\ UNCHANGED <<stLocals, rdLocals>>
           ELSE IF \/ Truthy(st_duration) /\ sf_clock - start >= st_duration.value
                   \/ Truthy(st_max_frames) /\ count >= st_max_frames.value
           THEN /\ st_pc' = "done"
                /\ st_start' = start /\ st_count' = count /\ st_last' = last
                /\ UNCHANGED <<sf_ret, rdLocals>>
           ELSE IF Monotonic(st_boot, sf_clock)
                      - (IF last.found THEN Monotonic(st_boot, last.value) ELSE 0)
                        < StreamInterval
           THEN /\ st_pc' = "running"
                /\ st_start' = start /\ st_count' = count /\ st_last' = last
                /\ UNCHANGED <<sf_ret, rdLocals>>
           ELSE /\ count < MaxStreamCount
                /\ st_start' = start /\ st_count' = count
                /\ IF NotConnected(sf_connected)
                   THEN /\ st_pc' = "raised"
                        /\ st_last' = last
                        /\ sf_ret' = SfRet("read", "RuntimeError", <<>>)
                        /\ UNCHANGED rdLocals
                   ELSE /\ st_pc' = "running"
                        /\ st_last' = Some(sf_clock)
                        /\ rd_pc' = "iter"
                        /\ rd_ts' = sf_clock - sf_start_time.value
                        /\ rd_left' = CamerasInOrder(sf_camera_ids, sf_cameras)
                        /\ rd_size' = Cardinality(sf_cameras)
                        /\ rd_got' = {}
                        /\ UNCHANGED sf_ret
    /\ UNCHANGED <<wi_scope, stConfig, st_boot, wkLocals, dcLocals>>
    /\ UNCHANGED <<sfConfig, sf_cameras, sf_leaked, sf_driver, sf_queue, sf_thread,
                   sf_orphans, sf_stop_event, sf_connected, sf_start_time, sf_clock,
                   sf_epoch, sf_produced, sf_cam_seq>>
    /\ UNCHANGED sfOthers

\* line 192, `for cam_id, cam in self._cameras.items()`: the iterator gives the
\* next item, ends, or raises RuntimeError("dictionary changed size during
\* iteration") when the dict no longer has the size it had
HsNext ==
    /\ fu_class = "SyncedSensorFusion"
    /\ rd_pc = "iter"
    /\ IF Cardinality(sf_cameras) # rd_size
       THEN /\ rd_pc' = "idle"
            /\ st_pc' = "raised"
            /\ sf_ret' = SfRet("read", "RuntimeError", <<>>)
       ELSE /\ rd_pc' = IF rd_left = <<>> THEN "queues" ELSE "cam"
            /\ UNCHANGED <<st_pc, sf_ret>>
    /\ UNCHANGED <<rd_left, rd_size, rd_got, rd_ts, wkLocals, dcLocals>>
    /\ UNCHANGED <<wi_scope, stConfig, stLocals, st_boot>>
    /\ UNCHANGED <<sfConfig, sf_cameras, sf_leaked, sf_driver, sf_queue, sf_thread,
                   sf_orphans, sf_stop_event, sf_connected, sf_start_time, sf_clock,
                   sf_epoch, sf_produced, sf_cam_seq>>
    /\ UNCHANGED sfOthers

\* lines 193-195, frame = cam.read() on the camera the iterator gave: CSICamera.read
\* raises RuntimeError on a driver that is not connected (csi_camera.py:220-221);
\* outcome is what a connected camera does, "frame" or "none"
HsCam(outcome) ==
    /\ fu_class = "SyncedSensorFusion"
    /\ rd_pc = "cam"
    /\ LET c == Head(rd_left)
       IN  IF c \in dc_closed
           THEN /\ outcome = "none"
                /\ rd_pc' = "idle"
                /\ st_pc' = "raised"
                /\ sf_ret' = SfRet("read", "RuntimeError", <<>>)
                /\ UNCHANGED <<rd_left, rd_got, sf_cam_seq>>
           ELSE /\ outcome = "frame" => sf_cam_seq[0] + sf_cam_seq[1] < MaxCamFrames
                /\ rd_pc' = "iter"
                /\ rd_left' = Tail(rd_left)
                /\ rd_got' = IF outcome = "frame" THEN rd_got \cup {c} ELSE rd_got
                /\ sf_cam_seq' = IF outcome = "frame" THEN [sf_cam_seq EXCEPT ![c] = @ + 1]
                                 ELSE sf_cam_seq
                /\ UNCHANGED <<st_pc, sf_ret>>
    /\ UNCHANGED <<rd_size, rd_ts, wkLocals, dcLocals>>
    /\ UNCHANGED <<wi_scope, stConfig, stLocals, st_boot>>
    /\ UNCHANGED <<sfConfig, sf_cameras, sf_leaked, sf_driver, sf_queue, sf_thread,
                   sf_orphans, sf_stop_event, sf_connected, sf_start_time, sf_clock,
                   sf_epoch, sf_produced>>
    /\ UNCHANGED sfOthers

\* lines 197-200 of read() and 228-230 of stream(): the queues are asked, the
\* SyncedFrame is returned, counted and yielded
HsReturn ==
    /\ fu_class = "SyncedSensorFusion"
    /\ rd_pc = "queues"
    /\ rd_pc' = "idle"
    /\ sf_queue' = [x \in AsyncSources |->
                      IF sf_queue[x] = <<>> THEN <<>> ELSE Tail(sf_queue[x])]
    /\ sf_ret' = SfRet("read", "no",
                       [timestamp |-> rd_ts,
                        cameras |-> [c \in rd_got |-> AsyncFrame(c, sf_epoch, sf_cam_seq[c] - 1)],
                        lidar |-> QueueGet(sf_queue["lidar"]),
                        oakd |-> QueueGet(sf_queue["oakd"])])
    /\ st_count' = st_count + 1
    /\ UNCHANGED <<rd_left, rd_size, rd_got, rd_ts, wkLocals, dcLocals>>
    /\ UNCHANGED <<wi_scope, st_pc, stConfig, st_start, st_last, st_boot>>
    /\ UNCHANGED <<sfConfig, sf_cameras, sf_leaked, sf_driver, sf_thread, sf_orphans,
                   sf_stop_event, sf_connected, sf_start_time, sf_clock, sf_epoch,
                   sf_produced, sf_cam_seq>>
    /\ UNCHANGED sfOthers

\* the handover study: one thread connects and iterates stream(), another
\* calls disconnect()
HandoverNext ==
    \/ SFTick /\ UNCHANGED <<usVars, thVars>>
    \/ \E fail_at \in 0..4 : THConnect(fail_at)
    \/ SFStream(NoneRes, NoneRes)
    \/ HsTurn
    \/ HsNext
    \/ \E outcome \in {"frame", "none"} : HsCam(outcome)
    \/ HsReturn
    \/ DcSet
    \/ DcJoins
    \/ \E c \in CameraIds : DcCam(c)
    \/ DcClear
    \/ DcDrivers
    \/ DcEnd

----------------------------------------------------------------------------
\* A SyncedSensorFusion that is connected, disconnected and connected again

\* Bound of the reconnect study
MaxReconnects == 2     \* connect() calls that go past the already-connected test

\* the worker threads of source x that have not ended: the one the handle names
\* and those it no longer names
LiveWorkers(x) == (IF sf_thread[x] = "alive" THEN 1 ELSE 0) + sf_orphans[x]

ReconnectNext ==
    \/ \E fail_at \in 0..4 : SFConnectWithin(fail_at, MaxReconnects) /\ UNCHANGED <<usVars, thVars>>
    \/ \E joined \in [AsyncSources -> BOOLEAN] :
          SFDisconnect(joined) /\ UNCHANGED <<usVars, thVars>>
    \/ \E x \in AsyncSources, orphan \in BOOLEAN, outcome \in {"frame", "none", "raise"} :
          SFWorkerTurn(x, orphan, outcome) /\ UNCHANGED <<usVars, thVars>>

----------------------------------------------------------------------------
\* Specifications: one class under study at a time, the others freshly built

\* no with-block entered, no stream() called
USIdle ==
    /\ wi_scope = "none"
    /\ st_pc = "none"
    /\ st_duration = NoneRes
    /\ st_max_frames = NoneRes
    /\ st_start = 0
    /\ st_count = 0
    /\ st_last = NoneRes
    /\ st_boot = StreamInterval

\* the program starts less than one interval, or one interval, after the origin
\* of time.monotonic()
USInit ==
    /\ wi_scope = "none"
    /\ st_pc = "none"
    /\ st_duration = NoneRes
    /\ st_max_frames = NoneRes
    /\ st_start = 0
    /\ st_count = 0
    /\ st_last = NoneRes
    /\ st_boot \in 0..StreamInterval

\* no worker started, no thread inside disconnect() or read()
THIdle ==
    /\ wk_pc = [x \in AsyncSources |-> "none"]
    /\ wk_frame = [x \in AsyncSources |-> NoneRes]
    /\ wk_last = [x \in AsyncSources |-> "none"]
    /\ dc_pc = "idle"
    /\ dc_closed = {}
    /\ rd_pc = "idle"
    /\ rd_left = <<>>
    /\ rd_size = 0
    /\ rd_got = {}
    /\ rd_ts = 0

FUIdle == fu_class = "SyncedSensorFusion" /\ SFIdle /\ USIdle /\ CCIdle /\ THIdle

InitBuffer == FBInit /\ ALIdle /\ TMInit /\ FUIdle

SpecBuffer == InitBuffer /\ [][FBNext]_vars

InitAligner == ALInit /\ FBIdle /\ TMInit /\ FUIdle

SpecAligner == InitAligner /\ [][ALNext]_vars

\* the aligner with the scheduler's guarantee: a thread that is inside
\* align_to_primary and can go on with its nested call does go on
SpecAlignerFair ==
    /\ InitAligner
    /\ [][ALNext]_vars
    /\ WF_vars(al_pc = "align_to_primary" /\ ALAlignToTimestamp(al_target, NoIds))

InitTM == TMInit /\ FBIdle /\ ALIdle /\ FUIdle

SpecTM == InitTM /\ [][TMNext]_vars

\* the program builds one fusion driver, of either class
InitFusion ==
    /\ \/ fu_class = "SyncedSensorFusion" /\ SFInit
       \/ fu_class = "SensorFusion" /\ BFInit
    /\ USIdle /\ CCIdle /\ THIdle
    /\ FBIdle /\ ALIdle /\ TMInit

FusionNext == (SFTick /\ UNCHANGED <<usVars, thVars>>) \/ SFNext \/ BFNext

SpecFusion == InitFusion /\ [][FusionNext]_vars

\* the program builds a SyncedSensorFusion and uses it in a with-block
InitCaller ==
    /\ fu_class = "SyncedSensorFusion"
    /\ SFInit /\ USInit /\ CCIdle /\ THIdle
    /\ FBIdle /\ ALIdle /\ TMInit

SpecCaller == InitCaller /\ [][CallerNext]_vars

SpecFaultyAsync == InitCaller /\ [][FaultyAsyncNext]_vars

\* a SyncedSensorFusion without cameras and with one async source
InitQueue ==
    /\ fu_class = "SyncedSensorFusion"
    /\ SFInit
    /\ sf_camera_ids = <<>>
    /\ Cardinality({x \in AsyncSources : sf_enabled[x]}) = 1
    /\ USIdle /\ CCIdle /\ THIdle
    /\ FBIdle /\ ALIdle /\ TMInit

SpecQueue == InitQueue /\ [][QueueNext]_vars

\* a SyncedSensorFusion with cameras only
InitHandover ==
    /\ fu_class = "SyncedSensorFusion"
    /\ SFInit
    /\ sf_enabled = [x \in AsyncSources |-> FALSE]
    /\ USIdle /\ CCIdle /\ THIdle
    /\ FBIdle /\ ALIdle /\ TMInit

SpecHandover == InitHandover /\ [][HandoverNext]_vars

InitReconnect ==
    /\ fu_class = "SyncedSensorFusion"
    /\ SFInit /\ USIdle /\ CCIdle /\ THIdle
    /\ FBIdle /\ ALIdle /\ TMInit

SpecReconnect == InitReconnect /\ [][ReconnectNext]_vars

\* the same with the scheduler's guarantee for threads: a worker whose read()
\* returns or raises gets to take its next turn of the loop
SpecReconnectFair ==
    /\ InitReconnect
    /\ [][ReconnectNext]_vars
    /\ \A x \in AsyncSources, orphan \in BOOLEAN :
          WF_vars(\E outcome \in {"frame", "none", "raise"} :
                     SFWorkerTurn(x, orphan, outcome) /\ UNCHANGED <<usVars, thVars>>)

InitCamera ==
    /\ CCInit
    /\ fu_class = "SyncedSensorFusion" /\ SFIdle /\ USIdle /\ THIdle
    /\ FBIdle /\ ALIdle /\ TMInit

SpecCamera == InitCamera /\ [][CCNext]_vars

----------------------------------------------------------------------------
\* Properties of FrameBuffer (checked under SpecBuffer)

\* the last n elements of s, in order
LastN(s, n) == IF Len(s) > n THEN SubSeq(s, Len(s) - n + 1, Len(s)) ELSE s

\* C1: a FrameBuffer built with max_size = C never holds more than C entries.
C1_LenAtMostMaxSize == Len(fb_buffer) <= fb_max_size

\* more frames were added than fit, and the buffer is exactly full
C1_Witness ==
    /\ fb_ret.op = "add"
    /\ Len(fb_added) > fb_max_size
    /\ Len(fb_buffer) = fb_max_size

\* C2: after add(), with timestamps in any order, every buffered entry e has
\* newest.timestamp - e.timestamp <= max_age.
C2_EveryEntryWithinMaxAge ==
    \A i \in 1..Len(fb_buffer) :
        fb_buffer[Len(fb_buffer)].timestamp - fb_buffer[i].timestamp <= fb_max_age

\* C3: capacity eviction is FIFO: absent age pruning (max_age larger than any
\* timestamp difference) the buffer is the last max_size added frames in
\* insertion order.
C3_FifoLastMaxSize ==
    fb_max_age > MaxTs => fb_buffer = LastN(fb_added, fb_max_size)

\* max_size = 3, adds 1, 2, 3, 4: the buffer is [2, 3, 4]
C3_Witness ==
    /\ fb_max_size = 3
    /\ fb_max_age > MaxTs
    /\ Timestamps(fb_added) = <<1, 2, 3, 4>>
    /\ Timestamps(fb_buffer) = <<2, 3, 4>>

\* C4 as stated: after add() only entries strictly newer than the cutoff
\* newest.timestamp - max_age are buffered (an entry of age exactly max_age
\* is pruned).
C4_OnlyStrictlyNewerThanCutoff ==
    \A i \in 1..Len(fb_buffer) :
        fb_buffer[i].timestamp > fb_buffer[Len(fb_buffer)].timestamp - fb_max_age

\* the index of the first entry of b that is not older than the cutoff
FirstNotOlder(b, cutoff) ==
    CHOOSE k \in 1..Len(b) :
        /\ b[k].timestamp >= cutoff
        /\ \A j \in 1..(k - 1) : b[j].timestamp < cutoff

\* C4 (amended): add() drops, from the head, exactly the entries whose
\* timestamp is strictly below the cutoff newest.timestamp - max_age and stops
\* at the first entry at or above it: an entry of age exactly max_age is kept.
C4_PrunesHeadStrictlyBelowCutoff ==
    [][\A ts \in 0..MaxTs :
          FBAdd(ts) =>
            LET b == DequeAppend(fb_buffer, Frame("cam", ts, Len(fb_added)), fb_max_size)
                cutoff == ts - fb_max_age
            IN  fb_buffer' = SubSeq(b, FirstNotOlder(b, cutoff), Len(b))]_vars

\* max_age 2, adds 0, 1, 3: 0 is pruned, 1 (age exactly max_age) is kept
C4_Witness ==
    /\ fb_max_size = 3
    /\ fb_max_age = 2
    /\ Timestamps(fb_added) = <<0, 1, 3>>
    /\ Timestamps(fb_buffer) = <<1, 3>>

\* C5: find_nearest(t) returns None exactly on an empty buffer; otherwise a
\* buffered entry at minimal distance from t, the first such entry in buffer
\* order, with delta t - entry.timestamp (the buffer is the one searched).
C5_FindNearestMinimalFirst ==
    fb_ret.op = "find_nearest" =>
        LET t == fb_ret.arg
            r == fb_ret.res
            d(i) == Abs(fb_buffer[i].timestamp - t)
        IN  /\ r.found <=> fb_buffer # <<>>
            /\ r.found =>
                 \E k \in 1..Len(fb_buffer) :
                    /\ r.frame = fb_buffer[k]
                    /\ r.delta = t - fb_buffer[k].timestamp
                    /\ \A j \in 1..Len(fb_buffer) : d(k) <= d(j)
                    /\ \A j \in 1..(k - 1) : d(j) > d(k)

\* two entries at the same minimal distance on either side of t: the first wins
C5_Witness ==
    /\ fb_ret.op = "find_nearest"
    /\ fb_ret.res.found
    /\ \E i, j \in 1..Len(fb_buffer) :
          /\ i < j
          /\ fb_buffer[i].timestamp # fb_buffer[j].timestamp
          /\ Abs(fb_buffer[i].timestamp - fb_ret.arg) = Abs(fb_buffer[j].timestamp - fb_ret.arg)
          /\ fb_ret.res.frame = fb_buffer[i]
          /\ fb_ret.res.delta # 0

----------------------------------------------------------------------------
\* Properties of FrameAligner (checked under SpecAligner)

\* the smallest distance from t to a frame of a non-empty buffer
NearestDistance(buf, t) ==
    LET D == {Abs(buf[i].timestamp - t) : i \in 1..Len(buf)}
    IN  CHOOSE d \in D : \A e \in D : d <= e

\* C6: align_to_timestamp(target) includes a sensor iff it has a non-empty buffer
\* whose nearest frame is within the tolerance (boundary included); every
\* included error is within the tolerance and is target - frame.timestamp of a
\* buffered frame; the frame map and the error map have the same sensor ids.
C6_IncludedIffWithinTolerance ==
    (al_ret.op = "align_to_timestamp" /\ ~al_ret.sensor_ids.given) =>
        LET r == al_ret.res
            t == al_ret.target
        IN  /\ r.found
            /\ r.timestamp = t
            /\ DOMAIN r.frames = DOMAIN r.alignment_errors
            /\ \A s \in Sensors :
                 s \in DOMAIN r.frames <=>
                    /\ s \in DOMAIN al_buffers
                    /\ al_buffers[s] # <<>>
                    /\ NearestDistance(al_buffers[s], t) <= al_tolerance
            /\ \A s \in DOMAIN r.frames :
                 /\ Abs(r.alignment_errors[s]) <= al_tolerance
                 /\ r.alignment_errors[s] = t - r.frames[s].timestamp
                 /\ \E i \in 1..Len(al_buffers[s]) : al_buffers[s][i] = r.frames[s]

\* one sensor matched exactly at the tolerance, another buffered one left out
C6_Witness ==
    /\ al_ret.op = "align_to_timestamp"
    /\ ~al_ret.sensor_ids.given
    /\ al_tolerance > 0
    /\ \E s, u \in DOMAIN al_buffers :
          /\ s \in DOMAIN al_ret.res.frames
          /\ Abs(al_ret.res.alignment_errors[s]) = al_tolerance
          /\ al_buffers[u] # <<>>
          /\ u \notin DOMAIN al_ret.res.frames

\* scenario C: tolerance 0.05, buffer "cam" holds one frame at t = 10.00
ScenarioC ==
    /\ al_tolerance = 5
    /\ "cam" \in DOMAIN al_buffers
    /\ Timestamps(al_buffers["cam"]) = <<1000>>
    /\ al_ret.op = "align_to_timestamp"
    /\ ~al_ret.sensor_ids.given

\* C7 as stated: in scenario C align_to_timestamp(10.03) contains "cam" with
\* error -0.03 and align_to_timestamp(10.10) does not contain "cam".
C7_ScenarioCNegativeError ==
    ScenarioC =>
        /\ al_ret.target = 1003 =>
              /\ "cam" \in DOMAIN al_ret.res.frames
              /\ al_ret.res.alignment_errors["cam"] = -3
        /\ al_ret.target = 1010 => "cam" \notin DOMAIN al_ret.res.frames

\* C7 (amended): in scenario C align_to_timestamp(10.03) contains "cam" with
\* error +0.03 (target - found) and align_to_timestamp(10.10) does not contain
\* "cam".
C7_ScenarioCPositiveError ==
    ScenarioC =>
        /\ al_ret.target = 1003 =>
              /\ "cam" \in DOMAIN al_ret.res.frames
              /\ al_ret.res.frames["cam"].timestamp = 1000
              /\ al_ret.res.alignment_errors["cam"] = 3
        /\ al_ret.target = 1010 => "cam" \notin DOMAIN al_ret.res.frames

\* scenario C after align_to_timestamp(10.03)
C7_Witness ==
    /\ ScenarioC
    /\ al_ret.target = 1003
    /\ "cam" \in DOMAIN al_ret.res.frames

\* C8: with a non-empty primary buffer align_to_primary() returns an AlignedFrame
\* at the primary's latest timestamp that contains the primary with error 0: the
\* call, once it has found the primary frame, can take the lock its nested
\* align_to_timestamp needs, and what it returns is that frame.
C8_AlignToPrimaryReturnsPrimary ==
    /\ al_pc = "align_to_primary" => ~al_lock
    /\ al_ret.op = "align_to_primary" =>
          IF al_primary \in DOMAIN al_buffers /\ al_buffers[al_primary] # <<>>
          THEN /\ al_ret.res.found
               /\ al_ret.res.timestamp = GetLatest(al_buffers[al_primary]).frame.timestamp
               /\ al_primary \in DOMAIN al_ret.res.frames
               /\ al_ret.res.alignment_errors[al_primary] = 0
          ELSE ~al_ret.res.found

\* C27: total_alignments counts the align_to_timestamp executions since
\* construction or the last clear() and successful_alignments those of them that
\* matched a sensor, so 0 <= successful <= total; no other operation moves the
\* counters; clear() empties every buffer and zeroes both; and an
\* align_to_primary() that found a primary frame gets counted once.
C27_CountersCountExecutions ==
    /\ [](0 <= al_successful /\ al_successful <= al_total)
    /\ [][\A target \in AlTargetTs \cup AlFrameTs, sids \in AlSensorIds :
            ALAlignToTimestamp(target, sids) =>
               /\ al_total' = al_total + 1
               /\ al_successful' = al_successful
                                     + (IF DOMAIN al_ret'.res.frames # {} THEN 1 ELSE 0)]_vars
    /\ [][(ALAlignToPrimary \/ ALGetStats \/ \E s \in Sensors, ts \in AlFrameTs : ALAddFrame(s, ts))
            => UNCHANGED <<al_total, al_successful>>]_vars
    /\ [][ALClear => /\ al_total' = 0 /\ al_successful' = 0
                     /\ \A s \in DOMAIN al_buffers' : al_buffers'[s] = <<>>]_vars
    /\ \A n \in 0..(MaxAligns - 1) :
          (al_pc = "align_to_primary" /\ al_total = n) ~> (al_total = n + 1)

\* C29: every public operation of the aligner returns with the mutex released:
\* whenever self._lock is held it is released again, also by an
\* align_to_primary() that found a primary frame and delegates to
\* align_to_timestamp().
C29_MutexAlwaysReleased == al_lock ~> ~al_lock

\* C30: align_to_timestamp with an explicit sensor_ids list S (the empty list
\* included) returns frames of sensors in S only, an empty result not counted
\* as successful, and creates no buffer; only sensor_ids=None means all sensors.
C30_ExplicitIdsOnly ==
    [][\A target \in AlTargetTs, S \in SUBSET Sensors :
          (al_pc = "idle" /\ ALAlignToTimestamp(target, Ids(S))) =>
             /\ DOMAIN al_ret'.res.frames \subseteq S
             /\ DOMAIN al_ret'.res.alignment_errors \subseteq S
             /\ (DOMAIN al_ret'.res.frames = {}) => al_successful' = al_successful
             /\ DOMAIN al_buffers' = DOMAIN al_buffers]_vars

----------------------------------------------------------------------------
\* Properties of TimestampManager (checked under SpecTM)

\* C9: start() while running is a no-op: the monotonic anchor, the wall-clock
\* anchor and the per-sensor-type stats are unchanged, so elapsed_time keeps
\* counting from the first start().
C9_StartWhileRunningIsNoOp ==
    [][(tm_running /\ TMStart) =>
          /\ UNCHANGED <<tm_start_mono, tm_start_wall, tm_stats, tm_running>>
          /\ ElapsedTime' = ElapsedTime]_vars

\* start() returned while running, after time had passed since the first start()
\* and with stats collected (a start() that anchors would have cleared them)
C9_Witness ==
    /\ tm_ret.op = "start"
    /\ tm_running
    /\ tm_ret.at > tm_start_mono.value
    /\ ElapsedTime > 0
    /\ DOMAIN tm_stats # {}

----------------------------------------------------------------------------
\* Properties of the fusion drivers (checked under SpecFusion)

\* every field of the driver but the record of the last call
sfFields == <<sf_camera_ids, sf_enabled, sf_cameras, sf_leaked, sf_driver, sf_queue,
              sf_thread, sf_orphans, sf_stop_event, sf_connected, sf_start_time,
              sf_epoch, sf_produced, sf_cam_seq>>

\* C10: read() on a fusion driver of either class that is not connected (never
\* connected, connect() failed, or disconnected again) raises RuntimeError on every
\* call, reads no camera (no camera driver produces a frame), takes nothing from a
\* queue, and leaves every field of the driver as it was.
C10_ReadNotConnectedRaises ==
    [][(/\ ~sf_connected
        /\ \/ \E cam \in [CameraIds -> {"frame", "none", "raise"}] : SFRead(cam)
           \/ \E cam \in [CameraIds -> {"frame", "none", "raise"}] : BFRead(cam))
       => /\ sf_ret' = SfRet("read", "RuntimeError", <<>>)
          /\ UNCHANGED sfFields]_vars

\* C10: a SyncedSensorFusion that was connected and disconnected again, with a
\* lidar frame still in its queue and a camera configured, has just refused a read()
C10_Witness ==
    /\ fu_class = "SyncedSensorFusion"
    /\ sf_epoch > 0
    /\ ~sf_connected
    /\ sf_camera_ids # <<>>
    /\ sf_queue["lidar"] # <<>>
    /\ sf_ret = SfRet("read", "RuntimeError", <<>>)

\* a read() of a connected SyncedSensorFusion that returned a SyncedFrame
ReadReturned ==
    /\ fu_class = "SyncedSensorFusion"
    /\ sf_ret.op = "read"
    /\ sf_ret.raised = "no"

----------------------------------------------------------------------------
\* Properties of the program with faulty async drivers (checked under SpecFaultyAsync)

\* C12: with async drivers whose read() raises on every call, nothing is ever
\* queued for a source, every SyncedFrame returned by read() or yielded by
\* stream() has lidar and oakd None, the only exception read() / stream() raise
\* is the RuntimeError of a driver that is not connected, and the workers of a
\* connected driver are still running (each exception was swallowed).
C12_FaultyAsyncAbsentNeverRaised ==
    /\ \A x \in AsyncSources : sf_queue[x] = <<>> /\ sf_produced[x] = 0
    /\ ReadReturned => ~sf_ret.value.lidar.found /\ ~sf_ret.value.oakd.found
    /\ (sf_ret.op \in {"read", "stream"} /\ sf_ret.raised # "no") =>
          sf_ret.raised = "RuntimeError" /\ ~sf_connected
    /\ \A x \in AsyncSources : (sf_connected /\ sf_enabled[x]) => sf_thread[x] = "alive"

\* C12: inside the with-block, both async sources enabled and their workers
\* running, stream() has yielded MaxStreamCount frames, the last one with a
\* camera frame and without lidar and oakd
C12_Witness ==
    /\ wi_scope = "body"
    /\ \A x \in AsyncSources : sf_enabled[x] /\ sf_thread[x] = "alive"
    /\ st_pc = "running"
    /\ st_count = MaxStreamCount
    /\ ReadReturned
    /\ DOMAIN sf_ret.value.cameras # {}
    /\ ~sf_ret.value.lidar.found
    /\ ~sf_ret.value.oakd.found

----------------------------------------------------------------------------
\* More properties of the fusion drivers (checked under SpecFusion or SpecCaller)

\* C13: a read() of a connected SyncedSensorFusion that returns a SyncedFrame
\* drains each async queue and keeps the latest item: the frame returned for a
\* source is the most recently enqueued one (None on an empty queue) and the
\* queue is empty right after.
C13_ReadDrainsKeepsLatest ==
    [][\A cam \in [CameraIds -> {"frame", "none", "raise"}] :
          (SFRead(cam) /\ sf_connected /\ sf_ret'.raised = "no") =>
              \A x \in AsyncSources :
                 /\ sf_queue'[x] = <<>>
                 /\ sf_ret'.value[x] = GetLatestLidar(sf_queue[x])]_vars

\* C14: after disconnect() of a SyncedSensorFusion has returned both async queues
\* are empty and no camera or async driver is connected; so a SyncedFrame never
\* holds an async frame produced during an earlier connection.
C14_DisconnectEmptiesQueues ==
    /\ (fu_class = "SyncedSensorFusion" /\ sf_ret.op = "disconnect") =>
          /\ \A x \in AsyncSources : sf_queue[x] = <<>> /\ sf_driver[x] # "connected"
          /\ sf_cameras = {}
    /\ ReadReturned =>
          \A x \in AsyncSources :
             sf_ret.value[x].found => sf_ret.value[x].value.epoch = sf_epoch

\* C15: when connect() of a SyncedSensorFusion raised, the driver is fully
\* disconnected: not marked connected, holding no connected camera, no connected
\* async driver, and no worker thread running.
C15_FailedConnectLeavesDisconnected ==
    (fu_class = "SyncedSensorFusion" /\ sf_ret.op = "connect" /\ sf_ret.raised # "no") =>
        /\ ~sf_connected
        /\ sf_cameras = {}
        /\ \A x \in AsyncSources : sf_driver[x] # "connected" /\ sf_thread[x] # "alive"

\* C16: stream(duration=D, max_frames=N) yields at most N frames when N is set
\* (N = 0 included), exactly N when it ended and no duration was set, and yields
\* no frame once D has elapsed since the stream started (D = 0 included).
C16_StreamRespectsLimits ==
    /\ st_max_frames.found => st_count <= st_max_frames.value
    /\ (st_max_frames.found /\ ~st_duration.found /\ st_pc = "done") =>
          st_count = st_max_frames.value
    /\ (st_duration.found /\ st_last.found) =>
          st_last.value - st_start < st_duration.value

\* C17: once the with-block has ended (normally, by an exception in the body, or
\* by connect() raising on entry) the driver is not connected, holds no camera
\* and no connected async driver, and no worker thread is running.
C17_ScopeEndReleasesAll ==
    wi_scope \in {"exited", "unwound", "entry_failed"} =>
        /\ ~sf_connected
        /\ sf_cameras = {}
        /\ \A x \in AsyncSources :
              sf_driver[x] # "connected" /\ sf_thread[x] # "alive" /\ sf_orphans[x] = 0

\* C18: while a SyncedSensorFusion is connected read() never raises, whatever
\* its sensors do: the caller gets a SyncedFrame.
C18_ConnectedReadNeverRaises ==
    (fu_class = "SyncedSensorFusion" /\ sf_ret.op = "read" /\ sf_connected) =>
        sf_ret.raised = "no"

\* C28: within one stream() the first run of the generator does not wait (it
\* reads, ends on a limit, or raises), two consecutive frames are read at least
\* one interval apart, and a run of the loop that finds the duration elapsed
\* ends the stream, also while it is pacing.
C28_StreamPacing ==
    [][\A cam \in [CameraIds -> {"frame", "none", "raise"}] :
          SFStreamIter(cam) =>
             /\ st_pc = "created" => ~(st_pc' = "running" /\ st_count' = 0)
             /\ (st_pc = "running" /\ st_last.found /\ st_count' = st_count + 1) =>
                    st_last'.value - st_last.value >= StreamInterval
             /\ (st_pc = "running" /\ Truthy(st_duration)
                    /\ sf_clock - st_start >= st_duration.value) => st_pc' = "done"]_vars

----------------------------------------------------------------------------
\* More properties of TimestampManager (checked under SpecTM)

\* stats["count"] of a sensor type, 0 when it has no entry
CountOf(stats, st) == IF st \in DOMAIN stats THEN stats[st].count ELSE 0

\* C19: get_timestamp() on a manager that is not running (never started, stopped,
\* or only reset) raises and changes no statistics and no anchor; on a running
\* manager it does not raise and adds exactly 1 to the count of the sensor type
\* it was called with, the other counts unchanged.
C19_GetTimestampNeedsRunning ==
    [][\A st \in SensorTypes, comp \in BOOLEAN :
          TMGetTimestamp(st, comp) =>
             IF ~tm_running
             THEN /\ tm_ret'.raised
                  /\ UNCHANGED <<tm_stats, tm_start_mono, tm_start_wall, tm_running>>
             ELSE /\ ~tm_ret'.raised
                  /\ CountOf(tm_stats', st) = CountOf(tm_stats, st) + 1
                  /\ \A o \in SensorTypes \ {st} :
                        CountOf(tm_stats', o) = CountOf(tm_stats, o)]_vars

\* C19: get_timestamp() has just raised on a manager that was started, counted a
\* timestamp, and was stopped: it has an anchor and statistics, and is not running
C19_Witness ==
    /\ tm_ret.op = "get_timestamp"
    /\ tm_ret.raised
    /\ ~tm_running
    /\ tm_start_mono.found
    /\ DOMAIN tm_stats # {}

\* C26: stop() changes only the running flag: both anchors and the stats of every
\* sensor type are as before, so elapsed_time is still the clock minus the anchor
\* of the last start() / reset() and get_stats() returns what it returned before.
C26_StopChangesOnlyRunning ==
    [][TMStop =>
          /\ ~tm_running'
          /\ UNCHANGED <<tm_start_mono, tm_start_wall, tm_stats>>
          /\ ElapsedTime' = ElapsedTime
          /\ tm_start_mono.found => ElapsedTime' = tm_clock' - tm_start_mono.value
          /\ Stats' = Stats]_vars

\* C26: stop() has just returned on a manager anchored earlier than now that has
\* counted timestamps: elapsed_time is positive and the stats are still there
C26_Witness ==
    /\ tm_ret.op = "stop"
    /\ ~tm_running
    /\ tm_start_mono.found
    /\ ElapsedTime > 0
    /\ TotalCount = MaxStamps

----------------------------------------------------------------------------
\* Properties of the threads of a SyncedSensorFusion (checked under SpecQueue)

\* C21: each async queue holds at most 5 frames in every state; the worker is
\* never blocked on its queue (each of its queue statements can run); a frame the
\* worker obtained is the newest of the queue when the worker is done with it,
\* and when the first push found the queue full the oldest queued frame, and
\* only that one, was removed for it.
C21_QueueBoundedLatestWins ==
    /\ [](\A x \in AsyncSources :
            /\ Len(sf_queue[x]) <= QueueMaxSize
            /\ wk_pc[x] = "put" => ENABLED WkPut(x)
            /\ wk_pc[x] = "evict" => ENABLED WkEvict(x)
            /\ wk_pc[x] = "reput" => ENABLED WkReput(x))
    /\ [][\A x \in AsyncSources :
            /\ WkEvict(x) => sf_queue[x] # <<>> /\ sf_queue'[x] = Tail(sf_queue[x])
            /\ ((WkPut(x) \/ WkEvict(x) \/ WkReput(x)) /\ wk_pc'[x] = "test") =>
                  /\ sf_queue'[x] # <<>>
                  /\ sf_queue'[x][Len(sf_queue'[x])] = wk_frame[x].value]_vars

\* C22: a worker leaves its loop only at the test of the stop flag, with the
\* flag set: no read() that raised and no push that failed ends its thread, and
\* after a read() that raised it is back at the test, from where it reads again
\* while the flag is clear.
C22_WorkerEndsOnlyOnStop ==
    [][\A x \in AsyncSources :
          /\ (wk_pc[x] # "done" /\ wk_pc'[x] = "done") => (wk_pc[x] = "test" /\ sf_stop_event)
          /\ (sf_thread[x] = "alive" /\ sf_thread'[x] # "alive") => sf_stop_event
          /\ WkRead(x, "raise") => wk_pc'[x] = "test"
          /\ (WkTest(x) /\ ~sf_stop_event) => wk_pc'[x] = "read"]_vars

\* C22: the flag clear, a worker whose last push failed (the caller emptied the
\* full queue under it) is alive and reading again
C22_Witness ==
    \E x \in AsyncSources :
       /\ ~sf_stop_event
       /\ sf_thread[x] = "alive"
       /\ wk_last[x] = "dropped"
       /\ wk_pc[x] = "read"

----------------------------------------------------------------------------
\* Properties of reconnection (checked under SpecReconnectFair and SpecReconnect)

\* C23: disconnect() can always return without any worker ending (its joins are
\* bounded), and every worker that is alive when disconnect() has set the stop
\* flag ends: the worker of connection e is gone, either while the handle still
\* names it or as one the handle no longer names.
C23_StopEndsEveryWorker ==
    /\ [](ENABLED (SFDisconnect([x \in AsyncSources |-> sf_thread[x] # "alive"])
                     /\ UNCHANGED <<usVars, thVars>>))
    /\ \A x \in AsyncSources, e \in 1..MaxReconnects :
          (sf_epoch = e /\ sf_ret.op = "disconnect" /\ sf_stop_event /\ LiveWorkers(x) > 0)
             ~> \/ sf_epoch = e /\ LiveWorkers(x) = 0
                \/ sf_epoch > e /\ sf_orphans[x] = 0

\* C24: over any sequence of connect() and disconnect() calls each async queue
\* has at most one live worker thread pushing into it.
C24_SingleProducer == \A x \in AsyncSources : LiveWorkers(x) <= 1

----------------------------------------------------------------------------
\* Properties of the handover between threads (checked under SpecHandover)

\* C25: with disconnect() running in another thread than the one iterating
\* stream(), the iterating thread never calls read() on a camera driver that is
\* already disconnected, its iteration over self._cameras never finds the map
\* changed, and the generator never ends by an exception other than the
\* RuntimeError of a stream() begun on a driver that is not connected.
C25_DisconnectSafeAcrossThreads ==
    [][/\ (\E outcome \in {"frame", "none"} : HsCam(outcome)) => Head(rd_left) \notin dc_closed
       /\ HsNext => Cardinality(sf_cameras) = rd_size
       /\ (st_pc # "raised" /\ st_pc' = "raised") => sf_ret'.op = "stream"]_vars

----------------------------------------------------------------------------
\* Properties of CSICamera (checked under SpecCamera)

\* C20: the i-th frame (from 0) that stream() yields on a freshly connected
\* CSICamera has sequence_number i, also when reads fail in between and read()
\* reconnects.
C20_StreamSequenceCountsFromZero ==
    \A i \in 1..Len(cs_yielded) : cs_yielded[i] = i - 1

====
